---- MODULE Spec2Model ----
(***************************************************************************)
(* Model of the ETL pipeline engine of 02-pipeline-procesamiento-datos:    *)
(* the orchestrator EjecutorPipeline (pipeline/ejecutor.py), the           *)
(* collaborators it calls and the quality scorer it invokes; and, each on  *)
(* its own, the scorer, the cleansing transformer TransformadorLimpieza    *)
(* and the API extractor ExtractorAPI.                                     *)
(*                                                                         *)
(* One run of ejecutar() is a sequence of steps, one per awaited           *)
(* collaborator call and one per phase boundary.  A collaborator call is   *)
(* atomic: the code awaits each call before it does anything else.         *)
(***************************************************************************)
EXTENDS Integers, Sequences, FiniteSets, TLC

\* ------------------------------------------------------------------ bounds
\* Collaborators registered in all, whatever their roles.
MaxColaboradores == 4
\* Seconds by which a call that outlasts the timeout may exceed it.
MaxTranscurrido == 1
\* Records of a record set given to the quality scorer.
MaxFilas == 5
\* Records of a record set given to the cleansing transformer, and calls of
\* transformar, each on what the call before it returned.
MaxRegistros == 3
MaxPasadas == 2
\* Records that the API holds, and the page sizes and page limits that the
\* configuration of the API extractor may give.
MaxServidor == 6
MaxTamanoPagina == 2
MaxPaginas == 3

\* ------------------------------------------------------------ configuration
\* ConfiguracionPipeline: the defaults of the two settings the model keeps fixed.
timeout_segundos == 300
tolerancia_errores == [num |-> 5, den |-> 100]

\* ----------------------------------------------------------------- records
\* A record is a mapping of two columns; a cell is a text, a null (None) or a
\* nested value (a list, which pandas cannot hash).
Reg(va, vb) == [a |-> va, b |-> vb]

LoteLimpio == << Reg("x", "x") >>
LoteConNulo == << Reg("nulo", "y"), Reg("x", "x") >>
LoteAnidado == << Reg("lista", "y") >>

Lotes == {LoteLimpio, LoteConNulo, LoteAnidado}

Parametros == {"ninguno", "filtro"}

TieneNulo(r) == r.a = "nulo" \/ r.b = "nulo"
TieneAnidado(r) == r.a = "lista" \/ r.b = "lista"

\* ------------------------------------------------------------ collaborators
\* An extractor either raises or returns its records, whatever the parameters.
ExtractorBase == {[falla |-> TRUE, datos |-> << >>]}
                   \cup {[falla |-> FALSE, datos |-> l] : l \in Lotes}

\* A transformer drops the records that hold a null, returns every record
\* twice, or raises.
TransformadorBase == {"sin_nulos", "duplica", "falla"}

\* A loader either raises or returns the identifiers of what it wrote.
CargadorBase == {[falla |-> TRUE, archivos |-> << >>],
                 [falla |-> FALSE, archivos |-> << "salida.csv" >>],
                 [falla |-> FALSE, archivos |-> << "salida.json", "salida.log" >>]}

\* A validator exposes the input hook, the output hook or both; a hook raises
\* when the record set it is given holds a null.
ValidadorBase == {v \in [entrada : BOOLEAN, salida : BOOLEAN] : v.entrada \/ v.salida}

ValidadorRechaza(datos) == \E k \in 1..Len(datos) : TieneNulo(datos[k])

SinNulo(r) == ~TieneNulo(r)

transformar(t, datos) ==
    CASE t = "sin_nulos" -> SelectSeq(datos, SinNulo)
      [] t = "duplica" -> datos \o datos

\* ------------------------------------------------------------------- state
VARIABLES
    configuracion,        \* validar_entrada / validar_salida flags
    extractores, transformadores, cargadores, validadores,
    fase,                 \* position of the current ejecutar() call
    i,                    \* index of the loop of the current phase
    parametros,           \* argument of the current call
    datos_extraidos, datos_transformados, archivos_generados,
    llamadas,             \* history: collaborator calls of the current run
    fases,                \* history: phases entered by the current run
    resultado,            \* value returned by the current call
    otra,                 \* the locals of a second ejecutar() call, suspended
    configuracion_final,  \* TransformadorLimpieza: the merged configuration
    datos_recibidos,      \* argument of transformar / calcular_metricas_calidad
    df_etapa, df_limpio,  \* the DataFrame a stage is given, and the cleaned one
    etapa,                \* position of the current transformar() call
    pasadas,              \* history: transformar() calls that returned
    registros_limpios,    \* value returned by the last transformar() call
    error_msg,            \* str(e) of the exception transformar() caught
    metricas_calidad,     \* value returned by calcular_metricas_calidad
    servidor,             \* ExtractorAPI: the records the API holds
    extraccion,           \* position of the current extraer() call
    pagina_actual,        \* page the paginated loop is at
    registros,            \* records gathered by the current extraer() call
    peticiones            \* history: the requests of the current extraer() call

vars_ejecutor == << configuracion, extractores, transformadores, cargadores, validadores,
                    fase, i, parametros, datos_extraidos,
                    datos_transformados, archivos_generados, llamadas, fases,
                    resultado >>

\* What a call of ejecutar() that runs on its own leaves alone.
vars_limpieza == << datos_recibidos, df_etapa, df_limpio, etapa, pasadas,
                   registros_limpios, error_msg >>

vars_api == << servidor, extraccion, pagina_actual, registros, peticiones >>

vars_aparte == << otra, configuracion_final, vars_limpieza, metricas_calidad,
                 vars_api >>

vars == << vars_ejecutor, vars_aparte >>

registro == << configuracion, extractores, transformadores, cargadores, validadores >>

\* The collaborators registered so far.
Registrados ==
    Len(extractores) + Len(transformadores) + Len(cargadores) + Len(validadores)

\* datetime.utcnow() at the start of the call: time is measured from there.
fecha_inicio == 0

\* datetime.utcnow() at the end of the call: the call ends at once, or it ends
\* after more seconds than the configured timeout.
fecha_fin ==
    {fecha_inicio}
      \cup {fecha_inicio + timeout_segundos + d : d \in 1..MaxTranscurrido}

Ninguno == [estado |-> "ninguno"]

EnCurso == fase \in {"Extracting", "ValidatingInput", "Transforming",
                     "ValidatingOutput", "Loading", "ScoringQuality"}

\* The locals of a call that has not started.
LlamadaEnReposo ==
    [fase |-> "Idle", i |-> 1, parametros |-> "ninguno",
     datos_extraidos |-> << >>, datos_transformados |-> << >>,
     archivos_generados |-> << >>, llamadas |-> << >>, fases |-> << >>,
     resultado |-> Ninguno]

\* No exception caught by transformar().
SinError == [excepcion |-> "ninguna", args |-> ""]

\* No transformer at work.
LimpiezaEnReposo ==
    /\ df_etapa = << >>
    /\ df_limpio = << >>
    /\ etapa = "reposo"
    /\ pasadas = 0
    /\ registros_limpios = << >>
    /\ error_msg = SinError

\* No API extractor at work.
APIEnReposo ==
    /\ servidor = << >>
    /\ extraccion = "reposo"
    /\ pagina_actual = 1
    /\ registros = << >>
    /\ peticiones = << >>

\* No second call, no transformer or extractor at work, nothing scored.
Aparte ==
    /\ otra = LlamadaEnReposo
    /\ configuracion_final = << >>
    /\ datos_recibidos = << >>
    /\ LimpiezaEnReposo
    /\ metricas_calidad = Ninguno
    /\ APIEnReposo

Init ==
    /\ configuracion \in [validar_entrada : BOOLEAN, validar_salida : BOOLEAN]
    /\ extractores = << >>
    /\ transformadores = << >>
    /\ cargadores = << >>
    /\ validadores = << >>
    /\ fase = "Idle"
    /\ i = 1
    /\ parametros = "ninguno"
    /\ datos_extraidos = << >>
    /\ datos_transformados = << >>
    /\ archivos_generados = << >>
    /\ llamadas = << >>
    /\ fases = << >>
    /\ resultado = Ninguno
    /\ Aparte

\* ----------------------------------------------------------- quality scorer
\* round(100 * num / den, 2), in hundredths of a percent (half to even).
Redondear2(num, den) ==
    LET q == (10000 * num) \div den
        r == (10000 * num) % den
    IN  IF 2 * r < den THEN q
        ELSE IF 2 * r > den THEN q + 1
        ELSE IF q % 2 = 0 THEN q ELSE q + 1

\* A record set becomes a DataFrame: its columns are the keys of all the
\* records, and a key a record lacks is a null cell.
Columnas(datos) == UNION {DOMAIN datos[k] : k \in 1..Len(datos)}

Celda(datos, k, c) == IF c \in DOMAIN datos[k] THEN datos[k][c] ELSE "nulo"

\* The cells that are numbers, with their values; "inf" is float('inf').
Numeros == {"0", "1", "2", "10", "11", "12", "13", "100", "1000"}

Valor(c) ==
    CASE c = "0" -> 0
      [] c = "1" -> 1
      [] c = "2" -> 2
      [] c = "10" -> 10
      [] c = "11" -> 11
      [] c = "12" -> 12
      [] c = "13" -> 13
      [] c = "100" -> 100
      [] c = "1000" -> 1000

Booleanos == {"True", "False"}

\* The cells that are pandas Timestamps, without and with a time zone.
TimestampSinZona == "Timestamp('2024-01-05 00:00:00')"
TimestampUTC == "Timestamp('2024-01-05 00:00:00+0000', tz='UTC')"
Timestamps == {TimestampSinZona, TimestampUTC}

\* isinstance(v, str)
EsTexto(c) ==
    c \notin (Numeros \cup Booleanos \cup Timestamps \cup {"inf", "nulo", "lista"})

\* df[columna].dropna(), as the rows that hold a value.
NoNulos(datos, c) == {k \in 1..Len(datos) : Celda(datos, k, c) # "nulo"}

\* The dtype pandas infers: numbers (None becomes NaN) are float64 or int64,
\* booleans without a None are bool, Timestamps (None becomes NaT) are
\* datetime64, anything else is object.
dtype(datos, c) ==
    LET valores == {Celda(datos, k, c) : k \in NoNulos(datos, c)}
    IN  IF valores # {} /\ valores \subseteq (Numeros \cup {"inf"}) THEN "float64"
        ELSE IF valores # {} /\ valores \subseteq Booleanos
                  /\ NoNulos(datos, c) = 1..Len(datos) THEN "bool"
        ELSE IF valores # {} /\ valores \subseteq Timestamps THEN "datetime64"
        ELSE "object"

\* df.size
total_celdas(datos) == Len(datos) * Cardinality(Columnas(datos))

\* df.isnull().sum().sum()
celdas_nulas(datos) ==
    Cardinality({kc \in (1..Len(datos)) \X Columnas(datos) :
                    Celda(datos, kc[1], kc[2]) = "nulo"})

\* df.duplicated(): the rows equal, cell by cell, to an earlier row.
registros_duplicados(datos) ==
    Cardinality({k \in 1..Len(datos) :
                    \E j \in 1..(k - 1) :
                       \A c \in Columnas(datos) :
                          Celda(datos, j, c) = Celda(datos, k, c)})

\* df.duplicated() hashes the cells: a nested value raises TypeError.
MetricasFalla(datos) ==
    datos # << >> /\ \E k \in 1..Len(datos) : \E c \in DOMAIN datos[k] :
                        datos[k][c] = "lista"

\* The position, from 1, of row k among the values of the column in
\* increasing order, inf last and equal values in row order.
Posicion(datos, c, k) ==
    LET menor(j) ==
           IF Celda(datos, k, c) = "inf"
           THEN Celda(datos, j, c) # "inf" \/ j < k
           ELSE /\ Celda(datos, j, c) # "inf"
                /\ \/ Valor(Celda(datos, j, c)) < Valor(Celda(datos, k, c))
                   \/ (Celda(datos, j, c) = Celda(datos, k, c) /\ j < k)
    IN  1 + Cardinality({j \in NoNulos(datos, c) : menor(j)})

\* The cell at position p of the sorted values.
Ordenado(datos, c, p) ==
    Celda(datos, CHOOSE k \in NoNulos(datos, c) : Posicion(datos, c, k) = p, c)

\* serie.quantile(q / 4) of a column with a value, linear interpolation, as the
\* two values it interpolates and the weight of the second in quarters.
Cuantil(datos, c, q) ==
    LET n == Cardinality(NoNulos(datos, c))
        h == q * (n - 1)
    IN  [previo |-> Ordenado(datos, c, (h \div 4) + 1),
         siguiente |-> Ordenado(datos, c, IF (h \div 4) + 2 <= n
                                           THEN (h \div 4) + 2 ELSE n),
         peso |-> h % 4]

\* Four times the quantile, when it is finite.
Cuantil4(cu) ==
    4 * Valor(cu.previo) + cu.peso * (Valor(cu.siguiente) - Valor(cu.previo))

\* _tiene_outliers_extremos of a numeric column.  A quantile interpolated from
\* inf is inf or NaN: the IQR is then not finite and no comparison is true.
_tiene_outliers_extremos(datos, c) ==
    LET Q1 == Cuantil(datos, c, 1)
        Q3 == Cuantil(datos, c, 3)
    IN  IF "inf" \in {Q1.previo, Q1.siguiente, Q3.previo, Q3.siguiente}
        THEN FALSE
        ELSE LET IQR == Cuantil4(Q3) - Cuantil4(Q1)
             IN  /\ IQR # 0
                 /\ \E k \in NoNulos(datos, c) :
                       \/ Celda(datos, k, c) = "inf"
                       \/ 4 * Valor(Celda(datos, k, c)) < Cuantil4(Q1) - 3 * IQR
                       \/ 4 * Valor(Celda(datos, k, c)) > Cuantil4(Q3) + 3 * IQR

\* _es_texto_consistente: every value of the column is a str.
_es_texto_consistente(datos, c) ==
    \A k \in NoNulos(datos, c) : EsTexto(Celda(datos, k, c))

\* The criteria one column meets, of three.
col_puntuacion(datos, c) ==
    IF NoNulos(datos, c) = {}
    THEN 0
    ELSE (IF dtype(datos, c) = "float64"
          THEN (IF \A k \in NoNulos(datos, c) : Celda(datos, k, c) # "inf"
                THEN 1 ELSE 0)
                 + (IF ~_tiene_outliers_extremos(datos, c) THEN 1 ELSE 0)
          ELSE IF dtype(datos, c) = "object"
          THEN (IF _es_texto_consistente(datos, c) THEN 1 ELSE 0)
          ELSE 0)
           + (IF 2 * (Len(datos) - Cardinality(NoNulos(datos, c))) < Len(datos)
              THEN 1 ELSE 0)

RECURSIVE puntuacion(_, _)
puntuacion(datos, columnas) ==
    IF columnas = {}
    THEN 0
    ELSE LET c == CHOOSE x \in columnas : TRUE
         IN  col_puntuacion(datos, c) + puntuacion(datos, columnas \ {c})

\* Mutant: the score is taken over two criteria per column.
_calcular_precision_datos_dos_criterios(datos) ==
    IF Columnas(datos) = {}
    THEN 0
    ELSE Redondear2(puntuacion(datos, Columnas(datos)),
                    2 * Cardinality(Columnas(datos)))

\* _calcular_precision_datos, rounded as calcular_metricas_calidad rounds it.
_calcular_precision_datos(datos) ==
    IF Columnas(datos) = {}
    THEN 0
    ELSE Redondear2(puntuacion(datos, Columnas(datos)),
                    3 * Cardinality(Columnas(datos)))

calcular_metricas_calidad(datos) ==
    IF datos = << >>
    THEN [completitud |-> 0, consistencia |-> 0, precision |-> 0]
    ELSE [completitud |->
             IF total_celdas(datos) > 0
             THEN Redondear2(total_celdas(datos) - celdas_nulas(datos),
                             total_celdas(datos))
             ELSE 0,
          consistencia |->
             Redondear2(Len(datos) - registros_duplicados(datos), Len(datos)),
          precision |-> _calcular_precision_datos(datos)]

\* ------------------------------------------------------ cleansing transformer
\* TransformadorLimpieza works on a DataFrame: here a sequence of rows, each a
\* function from column names to cells.  A column name is a sequence of words,
\* so that the name of a marker column is the name of its column with one more
\* word.  In the record sets given to the transformer a numeric column holds
\* numbers and nulls, a text column strs and nulls; a number read back from a
\* float64 column equals the number put in.
Fila(va, vb) == (<< "a" >> :> va) @@ (<< "b" >> :> vb)

\* pd.DataFrame(datos): every row gets every column.
DataFrame(datos) ==
    [k \in 1..Len(datos) |-> [c \in Columnas(datos) |-> Celda(datos, k, c)]]

\* The rows of df at the positions of K, in order.
RECURSIVE Filas(_, _, _)
Filas(df, K, n) ==
    IF n = 0 THEN << >>
    ELSE IF n \in K THEN Append(Filas(df, K, n - 1), df[n])
    ELSE Filas(df, K, n - 1)

Bool(b) == IF b THEN "True" ELSE "False"

\* The sections of the configuration that __init__ sets by default.  A set of
\* columns that is empty stands for None.
configuracion_default ==
    [manejo_nulos |-> [estrategia |-> "eliminar", imputacion |-> "media",
                       valor_fijo |-> "nulo", columnas_especificas |-> {}],
     manejo_outliers |-> [habilitado |-> TRUE, metodo |-> "iqr",
                          factor |-> [num |-> 3, den |-> 2],
                          columnas_numericas |-> {}],
     manejo_duplicados |-> [habilitado |-> TRUE, mantener |-> "primero",
                            subset |-> {}],
     normalizacion_texto |-> [habilitada |-> TRUE, minusculas |-> TRUE,
                              eliminar_espacios |-> TRUE,
                              eliminar_caracteres_especiales |-> FALSE,
                              normalizar_acentos |-> TRUE],
     normalizacion_fechas |-> [habilitada |-> TRUE, formato_entrada |-> "auto",
                               formato_salida |-> "%Y-%m-%d %H:%M:%S",
                               zona_horaria |-> "UTC"],
     validacion_datos |-> [habilitada |-> TRUE, rangos_numericos |-> {},
                           valores_permitidos |-> {}, longitud_texto |-> {}]]

\* {**configuracion_default, **configuracion}: a section the caller gives
\* replaces the default section as a whole.
Combinar(configuracion_usuario) ==
    [s \in DOMAIN configuracion_default |->
        IF s \in DOMAIN configuracion_usuario
        THEN configuracion_usuario[s]
        ELSE configuracion_default[s]]

validar_configuracion(c) ==
    /\ c.manejo_nulos.estrategia \in {"eliminar", "imputar", "marcar"}
    /\ c.manejo_nulos.estrategia = "imputar" =>
          c.manejo_nulos.imputacion \in {"media", "mediana", "moda", "valor_fijo"}
    /\ c.manejo_outliers.metodo \in {"iqr", "zscore", "isolation_forest"}

\* The order of str values, for the cells of the model.
OrdenTexto(c) ==
    CASE c = " x" -> 1
      [] c = "2024-01-05" -> 2
      [] c = "2024-01-05 00:00:00" -> 3
      [] c = "2024-01-05 00:00:00+00:00" -> 4
      [] c = "None" -> 5
      [] c = "X" -> 6
      [] c = "none" -> 7
      [] c = "x" -> 8
      [] OTHER -> 9

\* serie.mode()[0]: the most frequent value, the smallest of them on a tie.
Moda(df, c) ==
    LET veces(v) == Cardinality({k \in NoNulos(df, c) : df[k][c] = v})
        orden(v) == IF v \in Numeros THEN Valor(v) ELSE OrdenTexto(v)
        valores == {df[k][c] : k \in NoNulos(df, c)}
    IN  CHOOSE v \in valores :
           \A w \in valores :
              veces(w) < veces(v) \/ (veces(w) = veces(v) /\ orden(v) <= orden(w))

\* _manejar_valores_nulos.  Of the imputation methods the model has the mode.
_manejar_valores_nulos(c, df) ==
    CASE c.manejo_nulos.estrategia = "eliminar" ->
            Filas(df, {k \in 1..Len(df) : \A col \in DOMAIN df[k] : df[k][col] # "nulo"},
                  Len(df))
      [] c.manejo_nulos.estrategia = "imputar" ->
            [k \in 1..Len(df) |->
               [col \in Columnas(df) |->
                  IF df[k][col] = "nulo" /\ c.manejo_nulos.imputacion = "moda"
                       /\ NoNulos(df, col) # {}
                  THEN Moda(df, col)
                  ELSE df[k][col]]]
      [] c.manejo_nulos.estrategia = "marcar" ->
            [k \in 1..Len(df) |->
               [col \in Columnas(df) \cup {Append(x, "es_nulo") : x \in Columnas(df)} |->
                  IF Len(col) > 1 /\ SubSeq(col, 1, Len(col) - 1) \in Columnas(df)
                  THEN Bool(df[k][SubSeq(col, 1, Len(col) - 1)] = "nulo")
                  ELSE df[k][col]]]

\* astype(str): None becomes the str "None".
str(c) == IF c = "nulo" THEN "None" ELSE c

\* Mutant: str.lower() leaves the upper case.
lower_sin_efecto(c) == c

lower(c) ==
    CASE c = "X" -> "x"
      [] c = "None" -> "none"
      [] OTHER -> c

strip(c) ==
    CASE c = " x" -> "x"
      [] OTHER -> c

\* str.replace(r'[^a-zA-Z0-9\s]', '')
sin_caracteres_especiales(c) ==
    CASE c = "2024-01-05" -> "20240105"
      [] c = "2024-01-05 00:00:00" -> "20240105 000000"
      [] c = "2024-01-05 00:00:00+00:00" -> "20240105 0000000000"
      [] OTHER -> c

\* _normalizar_texto: the cells of the object columns, as strs.  No cell of
\* the model has an accent to fold.
_normalizar_texto(c, df) ==
    LET t == c.normalizacion_texto
        minusculas(v) == IF t.minusculas THEN lower(v) ELSE v
        espacios(v) == IF t.eliminar_espacios THEN strip(v) ELSE v
        especiales(v) == IF t.eliminar_caracteres_especiales
                         THEN sin_caracteres_especiales(v) ELSE v
    IN  [k \in 1..Len(df) |->
           [col \in Columnas(df) |->
              IF dtype(df, col) = "object"
              THEN especiales(espacios(minusculas(str(df[k][col]))))
              ELSE df[k][col]]]

\* What pd.to_datetime reads as a date: a date with a UTC offset becomes a
\* Timestamp with a time zone, any other date one without.
EsFecha(c) ==
    c \in {"2024-01-05", "2024-01-05 00:00:00", "20240105",
           "2024-01-05 00:00:00+00:00"}

to_datetime(c) ==
    CASE c = "nulo" -> "nulo"
      [] c = "2024-01-05 00:00:00+00:00" -> TimestampUTC
      [] OTHER -> TimestampSinZona

\* dt.tz_localize("UTC") of values without a time zone.
tz_localize(c) == IF c = "nulo" THEN "nulo" ELSE TimestampUTC

\* dt.strftime("%Y-%m-%d %H:%M:%S")
strftime(c) == IF c = "nulo" THEN "nulo" ELSE "2024-01-05 00:00:00"

\* _normalizar_fechas, column by column, for the object columns.  The column
\* of df_limpio is assigned after each step, and an exception at any step
\* (a missing setting, a value that is not a date or dates with and without
\* an offset in to_datetime, values that already have a time zone in
\* tz_localize) is caught and logged: the column keeps what the last step that
\* succeeded assigned.  An empty zona_horaria stands for None.
_normalizar_fechas(c, df) ==
    LET f == c.normalizacion_fechas
        leida(col) ==
            /\ "formato_entrada" \in DOMAIN f
            /\ \A j \in NoNulos(df, col) : EsFecha(df[j][col])
            /\ \A j, k \in NoNulos(df, col) : to_datetime(df[j][col]) = to_datetime(df[k][col])
        localizada(col) ==
            /\ "zona_horaria" \in DOMAIN f
            /\ (f.zona_horaria # "" =>
                  \A j \in NoNulos(df, col) : to_datetime(df[j][col]) = TimestampSinZona)
        celda(k, col) ==
            IF dtype(df, col) # "object" \/ ~leida(col) THEN df[k][col]
            ELSE IF ~localizada(col) THEN to_datetime(df[k][col])
            ELSE IF "formato_salida" \notin DOMAIN f
            THEN (IF f.zona_horaria # "" THEN tz_localize(to_datetime(df[k][col]))
                  ELSE to_datetime(df[k][col]))
            ELSE strftime(df[k][col])
    IN  [k \in 1..Len(df) |-> [col \in Columnas(df) |-> celda(k, col)]]

\* The columns two rows are compared on.
Clave(c, df) ==
    IF c.manejo_duplicados.subset = {}
    THEN Columnas(df)
    ELSE c.manejo_duplicados.subset

IgualClave(c, df, j, k) == \A col \in Clave(c, df) : df[j][col] = df[k][col]

\* df.drop_duplicates(subset, keep) over the first n rows: a row is kept
\* unless an earlier row (keep='first'), a later row (keep='last') or any other
\* row (keep=False) has its key.
RECURSIVE drop_duplicates(_, _, _, _)
drop_duplicates(c, df, keep, n) ==
    IF n = 0 THEN << >>
    ELSE LET antes == \E j \in 1..(n - 1) : IgualClave(c, df, j, n)
             despues == \E j \in (n + 1)..Len(df) : IgualClave(c, df, j, n)
             repetida == CASE keep = "first" -> antes
                           [] keep = "last" -> despues
                           [] keep = "False" -> antes \/ despues
         IN  IF repetida
             THEN drop_duplicates(c, df, keep, n - 1)
             ELSE Append(drop_duplicates(c, df, keep, n - 1), df[n])

\* Mutant: "primero" keeps the last record of each key.
_manejar_duplicados_ultimo(c, df) ==
    CASE c.manejo_duplicados.mantener = "primero" ->
            drop_duplicates(c, df, "last", Len(df))
      [] c.manejo_duplicados.mantener = "ultimo" ->
            drop_duplicates(c, df, "last", Len(df))
      [] c.manejo_duplicados.mantener = "ninguno" ->
            drop_duplicates(c, df, "False", Len(df))
      [] OTHER -> df

_manejar_duplicados(c, df) ==
    CASE c.manejo_duplicados.mantener = "primero" ->
            drop_duplicates(c, df, "first", Len(df))
      [] c.manejo_duplicados.mantener = "ultimo" ->
            drop_duplicates(c, df, "last", Len(df))
      [] c.manejo_duplicados.mantener = "ninguno" ->
            drop_duplicates(c, df, "False", Len(df))
      [] OTHER -> df

\* The sum of f over the rows of K.
RECURSIVE Suma(_, _)
Suma(f, K) ==
    IF K = {} THEN 0
    ELSE LET k == CHOOSE x \in K : TRUE IN f[k] + Suma(f, K \ {k})

\* Mutant: only the lower limit is compared.
FueraDeIQR_solo_inferior(c, df, col, k) ==
    LET f == c.manejo_outliers.factor
        Q1 == Cuantil4(Cuantil(df, col, 1))
        Q3 == Cuantil4(Cuantil(df, col, 3))
        x == Valor(df[k][col])
    IN  /\ df[k][col] # "nulo"
        /\ 4 * f.den * x < f.den * Q1 - f.num * (Q3 - Q1)

\* Whether row k is outside Q1 - factor * IQR .. Q3 + factor * IQR of the
\* column; a null compares false.
FueraDeIQR(c, df, col, k) ==
    LET f == c.manejo_outliers.factor
        Q1 == Cuantil4(Cuantil(df, col, 1))
        Q3 == Cuantil4(Cuantil(df, col, 3))
        x == Valor(df[k][col])
    IN  /\ df[k][col] # "nulo"
        /\ \/ 4 * f.den * x < f.den * Q1 - f.num * (Q3 - Q1)
           \/ 4 * f.den * x > f.den * Q3 + f.num * (Q3 - Q1)

\* Whether abs((x - mean) / std) > factor for row k, std being the sample
\* deviation; a null, and a deviation of 0, compare false.
FueraDeZ(c, df, col, k) ==
    LET f == c.manejo_outliers.factor
        K == NoNulos(df, col)
        n == Cardinality(K)
        total == Suma([j \in K |-> Valor(df[j][col])], K)
        desvio2 == Suma([j \in K |-> (n * Valor(df[j][col]) - total)
                                        * (n * Valor(df[j][col]) - total)], K)
        d == n * Valor(df[k][col]) - total
    IN  /\ df[k][col] # "nulo"
        /\ d * d * (n - 1) * f.den * f.den > f.num * f.num * desvio2

\* _manejar_outliers: every mask is computed on the DataFrame the stage was
\* given, and a row stays if no mask takes it out.
_manejar_outliers(c, df) ==
    LET o == c.manejo_outliers
        columnas == IF o.columnas_numericas = {}
                    THEN {col \in Columnas(df) : dtype(df, col) = "float64"}
                    ELSE {col \in o.columnas_numericas \cap Columnas(df) :
                             dtype(df, col) = "float64"}
        outlier(col, k) ==
            CASE o.metodo = "iqr" -> FueraDeIQR(c, df, col, k)
              [] o.metodo = "zscore" -> FueraDeZ(c, df, col, k)
              [] OTHER -> FALSE
    IN  Filas(df, {k \in 1..Len(df) : \A col \in columnas : ~outlier(col, k)},
              Len(df))

\* str.len() of a cell of an object column.
len(c) ==
    CASE c \in {"x", "X"} -> 1
      [] c = " x" -> 2
      [] c \in {"None", "none"} -> 4
      [] c = "20240105" -> 8
      [] c = "2024-01-05" -> 10
      [] c = "20240105 000000" -> 15
      [] c = "2024-01-05 00:00:00" -> 19
      [] c = "20240105 0000000000" -> 19
      [] c = "2024-01-05 00:00:00+00:00" -> 25

\* _validar_datos: a rule is [columna, min, max] or [columna, valores]; a null
\* passes no comparison.
_validar_datos(c, df) ==
    LET v == c.validacion_datos
        enRango(k) ==
            \A r \in v.rangos_numericos :
               (r.columna \in Columnas(df) /\ dtype(df, r.columna) = "float64") =>
                  /\ df[k][r.columna] # "nulo"
                  /\ Valor(df[k][r.columna]) >= r.min
                  /\ Valor(df[k][r.columna]) <= r.max
        permitido(k) ==
            \A r \in v.valores_permitidos :
               r.columna \in Columnas(df) => df[k][r.columna] \in r.valores
        deLongitud(k) ==
            \A r \in v.longitud_texto :
               (r.columna \in Columnas(df) /\ dtype(df, r.columna) = "object") =>
                  /\ df[k][r.columna] # "nulo"
                  /\ len(df[k][r.columna]) >= r.min
                  /\ len(df[k][r.columna]) <= r.max
    IN  Filas(df, {k \in 1..Len(df) : enRango(k) /\ permitido(k) /\ deLongitud(k)},
              Len(df))

\* ------------------------------------------------------------------ results
\* str(e) of the exception a collaborator (or the scorer) raised.
Mensaje(rol, k) == [origen |-> rol, indice |-> k]

\* One awaited call of a collaborator: who, with what, and whether it raised.
Llamada(rol, k, p, datos, lanza) ==
    [rol |-> rol, indice |-> k, parametros |-> p, datos |-> datos, lanza |-> lanza]

\* len(datos_transformados) / len(datos_extraidos) if datos_extraidos else 0,
\* kept as a fraction.
tasa_exito(extraidos, transformados) ==
    IF extraidos # << >>
    THEN [num |-> Len(transformados), den |-> Len(extraidos)]
    ELSE [num |-> 0, den |-> 1]

\* Mutant: the quality metrics are those of the extracted set.
ResultadoExitosoSobreExtraidos(fin) ==
    LET metricas == calcular_metricas_calidad(datos_extraidos)
    IN  [estado |-> "Completed",
         fecha_inicio |-> fecha_inicio,
         fecha_fin |-> fin,
         registros_procesados |-> Len(datos_extraidos),
         registros_exitosos |-> Len(datos_transformados),
         registros_fallidos |-> Len(datos_extraidos) - Len(datos_transformados),
         tasa_exito |-> tasa_exito(datos_extraidos, datos_transformados),
         completitud_datos |-> metricas.completitud,
         consistencia_datos |-> metricas.consistencia,
         precision_datos |-> metricas.precision,
         errores |-> << >>,
         archivos_salida |-> archivos_generados]

ResultadoExitoso(fin) ==
    LET metricas == calcular_metricas_calidad(datos_transformados)
    IN  [estado |-> "Completed",
         fecha_inicio |-> fecha_inicio,
         fecha_fin |-> fin,
         registros_procesados |-> Len(datos_extraidos),
         registros_exitosos |-> Len(datos_transformados),
         registros_fallidos |-> Len(datos_extraidos) - Len(datos_transformados),
         tasa_exito |-> tasa_exito(datos_extraidos, datos_transformados),
         completitud_datos |-> metricas.completitud,
         consistencia_datos |-> metricas.consistencia,
         precision_datos |-> metricas.precision,
         errores |-> << >>,
         archivos_salida |-> archivos_generados]

\* Mutant: the failure result keeps the counts reached before the failure.
ResultadoErrorConConteos(e, fin) ==
    [estado |-> "Failed",
     fecha_inicio |-> fecha_inicio,
     fecha_fin |-> fin,
     registros_procesados |-> Len(datos_extraidos),
     registros_exitosos |-> Len(datos_transformados),
     registros_fallidos |-> Len(datos_extraidos) - Len(datos_transformados),
     tasa_exito |-> tasa_exito(datos_extraidos, datos_transformados),
     completitud_datos |-> 0,
     consistencia_datos |-> 0,
     precision_datos |-> 0,
     errores |-> << e >>,
     archivos_salida |-> << >>]

\* Mutant: the failure result is built from the (empty) errores local.
ResultadoErrorSinMensaje(e, fin) ==
    [estado |-> "Failed",
     fecha_inicio |-> fecha_inicio,
     fecha_fin |-> fin,
     registros_procesados |-> 0,
     registros_exitosos |-> 0,
     registros_fallidos |-> 0,
     tasa_exito |-> [num |-> 0, den |-> 1],
     completitud_datos |-> 0,
     consistencia_datos |-> 0,
     precision_datos |-> 0,
     errores |-> << >>,
     archivos_salida |-> << >>]

ResultadoError(e, fin) ==
    [estado |-> "Failed",
     fecha_inicio |-> fecha_inicio,
     fecha_fin |-> fin,
     registros_procesados |-> 0,
     registros_exitosos |-> 0,
     registros_fallidos |-> 0,
     tasa_exito |-> [num |-> 0, den |-> 1],
     completitud_datos |-> 0,
     consistencia_datos |-> 0,
     precision_datos |-> 0,
     errores |-> << e >>,
     archivos_salida |-> << >>]

\* --------------------------------------------------------------- registration
agregar_extractor(extractor) ==
    /\ fase = "Idle"
    /\ otra.fase = "Idle"
    /\ Registrados < MaxColaboradores
    /\ extractores' = Append(extractores, extractor)
    /\ UNCHANGED << configuracion, transformadores, cargadores, validadores,
                    fase, i, parametros, datos_extraidos,
                    datos_transformados, archivos_generados, llamadas, fases,
                    resultado >>
    /\ UNCHANGED vars_aparte

agregar_transformador(transformador) ==
    /\ fase = "Idle"
    /\ otra.fase = "Idle"
    /\ Registrados < MaxColaboradores
    /\ transformadores' = Append(transformadores, transformador)
    /\ UNCHANGED << configuracion, extractores, cargadores, validadores,
                    fase, i, parametros, datos_extraidos,
                    datos_transformados, archivos_generados, llamadas, fases,
                    resultado >>
    /\ UNCHANGED vars_aparte

\* Mutant: the loader is put at the head of the list.
agregar_cargador_al_frente(cargador) ==
    /\ fase = "Idle"
    /\ otra.fase = "Idle"
    /\ Registrados < MaxColaboradores
    /\ cargadores' = << cargador >> \o cargadores
    /\ UNCHANGED << configuracion, extractores, transformadores, validadores,
                    fase, i, parametros, datos_extraidos,
                    datos_transformados, archivos_generados, llamadas, fases,
                    resultado >>
    /\ UNCHANGED vars_aparte

agregar_cargador(cargador) ==
    /\ fase = "Idle"
    /\ otra.fase = "Idle"
    /\ Registrados < MaxColaboradores
    /\ cargadores' = Append(cargadores, cargador)
    /\ UNCHANGED << configuracion, extractores, transformadores, validadores,
                    fase, i, parametros, datos_extraidos,
                    datos_transformados, archivos_generados, llamadas, fases,
                    resultado >>
    /\ UNCHANGED vars_aparte

agregar_validador(validador) ==
    /\ fase = "Idle"
    /\ otra.fase = "Idle"
    /\ Registrados < MaxColaboradores
    /\ validadores' = Append(validadores, validador)
    /\ UNCHANGED << configuracion, extractores, transformadores, cargadores,
                    fase, i, parametros, datos_extraidos,
                    datos_transformados, archivos_generados, llamadas, fases,
                    resultado >>
    /\ UNCHANGED vars_aparte

\* ------------------------------------------------------------------ ejecutar
\* The locals of a call that is not running.
SinLlamada ==
    /\ i' = 1
    /\ parametros' = "ninguno"
    /\ datos_extraidos' = << >>
    /\ datos_transformados' = << >>
    /\ archivos_generados' = << >>
    /\ llamadas' = << >>
    /\ fases' = << >>
    /\ resultado' = Ninguno

\* Mutant: the exception leaves ejecutar() and no result is returned.
FallarPropagando(e) ==
    /\ fase' = "Raised"
    /\ UNCHANGED << i, datos_extraidos, datos_transformados, archivos_generados,
                    fases, resultado >>

\* except Exception as e: the result with the error, built at once.
Fallar(e) ==
    /\ fase' = "Failed"
    /\ \E fin \in fecha_fin :
           resultado' = ResultadoError(e, fin)
    /\ UNCHANGED << i, datos_extraidos, datos_transformados, archivos_generados, fases >>

Entrar(f) ==
    /\ fase' = f
    /\ fases' = Append(fases, f)
    /\ i' = 1

\* The call starts: the start timestamp is read and extraction begins.
ejecutar(p) ==
    /\ fase = "Idle"
    /\ parametros' = p
    /\ Entrar("Extracting")
    /\ UNCHANGED << registro, datos_extraidos, datos_transformados,
                    archivos_generados, llamadas, resultado >>
    /\ UNCHANGED vars_aparte

\* Mutant: a failing extractor is logged and skipped; the loop goes on.
ejecutar_extraccion_tolerante ==
    /\ fase = "Extracting"
    /\ i <= Len(extractores)
    /\ llamadas' = Append(llamadas, Llamada("extractor", i, parametros, << >>,
                                          extractores[i].falla))
    /\ datos_extraidos' = datos_extraidos \o extractores[i].datos
    /\ i' = i + 1
    /\ UNCHANGED << fase, fases, datos_transformados, archivos_generados, resultado >>
    /\ UNCHANGED << registro, parametros >>
    /\ UNCHANGED vars_aparte

\* Mutant: the records of an extractor replace those extracted so far.
ejecutar_extraccion_reemplaza ==
    /\ fase = "Extracting"
    /\ i <= Len(extractores)
    /\ llamadas' = Append(llamadas, Llamada("extractor", i, parametros, << >>,
                                          extractores[i].falla))
    /\ IF extractores[i].falla
       THEN Fallar(Mensaje("extractor", i))
       ELSE /\ datos_extraidos' = extractores[i].datos
            /\ i' = i + 1
            /\ UNCHANGED << fase, fases, datos_transformados, archivos_generados, resultado >>
    /\ UNCHANGED << registro, parametros >>
    /\ UNCHANGED vars_aparte

\* One iteration of the loop over the extractors.
ejecutar_extraccion ==
    /\ fase = "Extracting"
    /\ i <= Len(extractores)
    /\ llamadas' = Append(llamadas, Llamada("extractor", i, parametros, << >>,
                                          extractores[i].falla))
    /\ IF extractores[i].falla
       THEN Fallar(Mensaje("extractor", i))
       ELSE /\ datos_extraidos' = datos_extraidos \o extractores[i].datos
            /\ i' = i + 1
            /\ UNCHANGED << fase, fases, datos_transformados, archivos_generados, resultado >>
    /\ UNCHANGED << registro, parametros >>
    /\ UNCHANGED vars_aparte

\* Mutant: input validation runs whatever the configuration says.
fin_extraccion_siempre_valida ==
    /\ fase = "Extracting"
    /\ i > Len(extractores)
    /\ Entrar("ValidatingInput")
    /\ UNCHANGED << registro, parametros, datos_extraidos, datos_transformados,
                    archivos_generados, llamadas, resultado >>
    /\ UNCHANGED vars_aparte

\* Extraction returns; input validation if enabled, else transformation, which
\* starts from a copy of the extracted set.
fin_extraccion ==
    /\ fase = "Extracting"
    /\ i > Len(extractores)
    /\ IF configuracion.validar_entrada
       THEN Entrar("ValidatingInput") /\ UNCHANGED datos_transformados
       ELSE Entrar("Transforming") /\ datos_transformados' = datos_extraidos
    /\ UNCHANGED << registro, parametros, datos_extraidos,
                    archivos_generados, llamadas, resultado >>
    /\ UNCHANGED vars_aparte

\* One iteration of the loop over the validators, input hook.
ejecutar_validacion_entrada ==
    /\ fase = "ValidatingInput"
    /\ i <= Len(validadores)
    /\ IF validadores[i].entrada
       THEN /\ llamadas' = Append(llamadas,
                                  Llamada("validar_entrada", i, "ninguno", datos_extraidos,
                                          ValidadorRechaza(datos_extraidos)))
            /\ IF ValidadorRechaza(datos_extraidos)
               THEN Fallar(Mensaje("validar_entrada", i))
               ELSE /\ i' = i + 1
                    /\ UNCHANGED << fase, fases, resultado >>
       ELSE /\ i' = i + 1
            /\ UNCHANGED << fase, fases, resultado, llamadas >>
    /\ UNCHANGED << registro, parametros, datos_extraidos,
                    datos_transformados, archivos_generados >>
    /\ UNCHANGED vars_aparte

fin_validacion_entrada ==
    /\ fase = "ValidatingInput"
    /\ i > Len(validadores)
    /\ Entrar("Transforming")
    /\ datos_transformados' = datos_extraidos
    /\ UNCHANGED << registro, parametros, datos_extraidos,
                    archivos_generados, llamadas, resultado >>
    /\ UNCHANGED vars_aparte

\* Mutant: every transformer is given the extracted set.
ejecutar_transformacion_desde_extraidos ==
    /\ fase = "Transforming"
    /\ i <= Len(transformadores)
    /\ llamadas' = Append(llamadas,
                          Llamada("transformador", i, "ninguno", datos_extraidos,
                                  transformadores[i] = "falla"))
    /\ IF transformadores[i] = "falla"
       THEN Fallar(Mensaje("transformador", i))
       ELSE /\ datos_transformados' = transformar(transformadores[i], datos_extraidos)
            /\ i' = i + 1
            /\ UNCHANGED << fase, fases, datos_extraidos, archivos_generados, resultado >>
    /\ UNCHANGED << registro, parametros, datos_extraidos, archivos_generados >>
    /\ UNCHANGED vars_aparte

\* One iteration of the loop over the transformers.
ejecutar_transformacion ==
    /\ fase = "Transforming"
    /\ i <= Len(transformadores)
    /\ llamadas' = Append(llamadas,
                          Llamada("transformador", i, "ninguno", datos_transformados,
                                  transformadores[i] = "falla"))
    /\ IF transformadores[i] = "falla"
       THEN Fallar(Mensaje("transformador", i))
       ELSE /\ datos_transformados' = transformar(transformadores[i], datos_transformados)
            /\ i' = i + 1
            /\ UNCHANGED << fase, fases, datos_extraidos, archivos_generados, resultado >>
    /\ UNCHANGED << registro, parametros, datos_extraidos,
                    archivos_generados >>
    /\ UNCHANGED vars_aparte

\* Mutant: output validation is skipped whatever the configuration says.
fin_transformacion_sin_validar ==
    /\ fase = "Transforming"
    /\ i > Len(transformadores)
    /\ Entrar("Loading")
    /\ UNCHANGED << registro, parametros, datos_extraidos,
                    datos_transformados, archivos_generados, llamadas, resultado >>
    /\ UNCHANGED vars_aparte

fin_transformacion ==
    /\ fase = "Transforming"
    /\ i > Len(transformadores)
    /\ IF configuracion.validar_salida
       THEN Entrar("ValidatingOutput")
       ELSE Entrar("Loading")
    /\ UNCHANGED << registro, parametros, datos_extraidos,
                    datos_transformados, archivos_generados, llamadas, resultado >>
    /\ UNCHANGED vars_aparte

\* One iteration of the loop over the validators, output hook.
ejecutar_validacion_salida ==
    /\ fase = "ValidatingOutput"
    /\ i <= Len(validadores)
    /\ IF validadores[i].salida
       THEN /\ llamadas' = Append(llamadas,
                                  Llamada("validar_salida", i, "ninguno", datos_transformados,
                                          ValidadorRechaza(datos_transformados)))
            /\ IF ValidadorRechaza(datos_transformados)
               THEN Fallar(Mensaje("validar_salida", i))
               ELSE /\ i' = i + 1
                    /\ UNCHANGED << fase, fases, resultado >>
       ELSE /\ i' = i + 1
            /\ UNCHANGED << fase, fases, resultado, llamadas >>
    /\ UNCHANGED << registro, parametros, datos_extraidos,
                    datos_transformados, archivos_generados >>
    /\ UNCHANGED vars_aparte

fin_validacion_salida ==
    /\ fase = "ValidatingOutput"
    /\ i > Len(validadores)
    /\ Entrar("Loading")
    /\ UNCHANGED << registro, parametros, datos_extraidos,
                    datos_transformados, archivos_generados, llamadas, resultado >>
    /\ UNCHANGED vars_aparte

\* Mutant: what a loader returns replaces what the loaders before it returned.
ejecutar_carga_reemplaza ==
    /\ fase = "Loading"
    /\ i <= Len(cargadores)
    /\ llamadas' = Append(llamadas, Llamada("cargador", i, "ninguno", datos_transformados,
                                          cargadores[i].falla))
    /\ IF cargadores[i].falla
       THEN Fallar(Mensaje("cargador", i))
       ELSE /\ archivos_generados' = cargadores[i].archivos
            /\ i' = i + 1
            /\ UNCHANGED << fase, fases, datos_extraidos, datos_transformados, resultado >>
    /\ UNCHANGED << registro, parametros, datos_extraidos,
                    datos_transformados >>
    /\ UNCHANGED vars_aparte

\* Mutant: a loader that raises is called a second time before the run fails.
ejecutar_carga_reintenta ==
    /\ fase = "Loading"
    /\ i <= Len(cargadores)
    /\ llamadas' = Append(llamadas, Llamada("cargador", i, "ninguno", datos_transformados,
                                          cargadores[i].falla))
    /\ IF cargadores[i].falla
       THEN IF \E k \in 1..Len(llamadas) :
                  llamadas[k].rol = "cargador" /\ llamadas[k].indice = i
            THEN Fallar(Mensaje("cargador", i))
            ELSE UNCHANGED << fase, fases, i, datos_extraidos, datos_transformados,
                              archivos_generados, resultado >>
       ELSE /\ archivos_generados' = archivos_generados \o cargadores[i].archivos
            /\ i' = i + 1
            /\ UNCHANGED << fase, fases, datos_extraidos, datos_transformados, resultado >>
    /\ UNCHANGED << registro, parametros, datos_extraidos,
                    datos_transformados >>
    /\ UNCHANGED vars_aparte

\* One iteration of the loop over the loaders.
ejecutar_carga ==
    /\ fase = "Loading"
    /\ i <= Len(cargadores)
    /\ llamadas' = Append(llamadas, Llamada("cargador", i, "ninguno", datos_transformados,
                                          cargadores[i].falla))
    /\ IF cargadores[i].falla
       THEN Fallar(Mensaje("cargador", i))
       ELSE /\ archivos_generados' = archivos_generados \o cargadores[i].archivos
            /\ i' = i + 1
            /\ UNCHANGED << fase, fases, datos_extraidos, datos_transformados, resultado >>
    /\ UNCHANGED << registro, parametros, datos_extraidos,
                    datos_transformados >>
    /\ UNCHANGED vars_aparte

fin_carga ==
    /\ fase = "Loading"
    /\ i > Len(cargadores)
    /\ Entrar("ScoringQuality")
    /\ UNCHANGED << registro, parametros, datos_extraidos,
                    datos_transformados, archivos_generados, llamadas, resultado >>
    /\ UNCHANGED vars_aparte

\* The metrics are computed and the result is built, inside the try block.
calcular_metricas ==
    /\ fase = "ScoringQuality"
    /\ IF MetricasFalla(datos_transformados)
       THEN Fallar(Mensaje("calcular_metricas_calidad", 0))
       ELSE /\ fase' = "Completed"
            /\ \E fin \in fecha_fin :
                   resultado' = ResultadoExitoso(fin)
            /\ UNCHANGED << i, fases, datos_extraidos, datos_transformados,
                            archivos_generados >>
    /\ UNCHANGED << registro, parametros, llamadas >>
    /\ UNCHANGED vars_aparte

\* return: the caller has the result and the locals of the call are gone.
retornar ==
    /\ fase \in {"Completed", "Failed"}
    /\ fase' = "Idle"
    /\ SinLlamada
    /\ UNCHANGED << registro >>
    /\ UNCHANGED vars_aparte

Next ==
    \/ \E e \in ExtractorBase : agregar_extractor(e)
    \/ \E t \in TransformadorBase : agregar_transformador(t)
    \/ \E c \in CargadorBase : agregar_cargador(c)
    \/ \E v \in ValidadorBase : agregar_validador(v)
    \/ \E p \in Parametros : ejecutar(p)
    \/ ejecutar_extraccion
    \/ fin_extraccion
    \/ ejecutar_validacion_entrada
    \/ fin_validacion_entrada
    \/ ejecutar_transformacion
    \/ fin_transformacion
    \/ ejecutar_validacion_salida
    \/ fin_validacion_salida
    \/ ejecutar_carga
    \/ fin_carga
    \/ calcular_metricas
    \/ retornar

Spec == Init /\ [][Next]_vars

\* --------------------------------------------------- the scorer on its own
\* calcular_metricas_calidad called on a record set, outside any run.
RegistrosMetricas ==
    {Reg("0", "x"), Reg("1", "x"), Reg("100", "nulo"), Reg("nulo", "nulo"),
     Reg("inf", "1"), Reg("1", "lista"), [a |-> "x"]}

LotesMetricas == UNION {[1..n -> RegistrosMetricas] : n \in 0..MaxFilas}

\* An orchestrator with nothing registered and no call.
EjecutorEnReposo ==
    /\ configuracion = [validar_entrada |-> TRUE, validar_salida |-> TRUE]
    /\ extractores = << >>
    /\ transformadores = << >>
    /\ cargadores = << >>
    /\ validadores = << >>
    /\ fase = "Idle"
    /\ i = 1
    /\ parametros = "ninguno"
    /\ datos_extraidos = << >>
    /\ datos_transformados = << >>
    /\ archivos_generados = << >>
    /\ llamadas = << >>
    /\ fases = << >>
    /\ resultado = Ninguno
    /\ otra = LlamadaEnReposo

InitMetricas ==
    /\ EjecutorEnReposo
    /\ configuracion_final = << >>
    /\ datos_recibidos \in LotesMetricas
    /\ LimpiezaEnReposo
    /\ metricas_calidad = Ninguno
    /\ APIEnReposo

\* The call: the scores, or the TypeError of df.duplicated().
llamar_calcular_metricas_calidad ==
    /\ metricas_calidad = Ninguno
    /\ metricas_calidad' =
          IF MetricasFalla(datos_recibidos)
          THEN [estado |-> "TypeError"]
          ELSE calcular_metricas_calidad(datos_recibidos)
    /\ UNCHANGED << vars_ejecutor, otra, configuracion_final, vars_limpieza,
                    vars_api >>

NextMetricas == llamar_calcular_metricas_calidad

SpecMetricas == InitMetricas /\ [][NextMetricas]_vars

\* ------------------------------------------ the cleansing transformer at work
\* TransformadorLimpieza(nombre, configuracion).transformar(datos), called again
\* on what it returned.  A step is a stage of _aplicar_limpieza.
RegistrosLimpieza ==
    {Fila("1", "X"), Fila("nulo", "x"), Fila("1", " x"), Fila("100", "2024-01-05")}

\* A set whose numeric column has a value far from the others.
LoteAtipico ==
    << Fila("1", "X"), Fila("1", "x"), Fila("2", " x"), Fila("1", "X"), Fila("100", "x") >>

\* A set whose numeric column holds 10, 12, 11, 13 and 1000.
LoteIQR ==
    << Fila("10", "x"), Fila("12", "x"), Fila("11", "x"), Fila("13", "x"),
       Fila("1000", "x") >>

\* A set whose text column holds dates written with their UTC offset.
LoteConZona ==
    << Fila("1", "2024-01-05 00:00:00+00:00"), Fila("2", "2024-01-05 00:00:00+00:00") >>

LotesLimpieza ==
    UNION {[1..n -> RegistrosLimpieza] : n \in 0..MaxRegistros}
       \cup {LoteAtipico, LoteIQR, LoteConZona}

\* The sections a caller may give with every setting that the code reads.
Opciones(s) ==
    CASE s = "manejo_nulos" ->
            {[estrategia |-> "marcar", imputacion |-> "media"],
             [estrategia |-> "imputar", imputacion |-> "moda"]}
      [] s = "manejo_outliers" ->
            {[habilitado |-> FALSE, metodo |-> "iqr", factor |-> [num |-> 3, den |-> 2],
              columnas_numericas |-> {}],
             [habilitado |-> TRUE, metodo |-> "zscore", factor |-> [num |-> 1, den |-> 1],
              columnas_numericas |-> {}]}
      [] s = "manejo_duplicados" ->
            {[habilitado |-> FALSE, mantener |-> "primero", subset |-> {}],
             [habilitado |-> TRUE, mantener |-> "primero", subset |-> {<< "a" >>}]}
      [] s = "normalizacion_texto" ->
            {[habilitada |-> FALSE, minusculas |-> TRUE, eliminar_espacios |-> TRUE,
              eliminar_caracteres_especiales |-> FALSE, normalizar_acentos |-> TRUE]}

Secciones ==
    {"manejo_nulos", "manejo_outliers", "manejo_duplicados", "normalizacion_texto"}

\* The configurations a caller may give: some sections, the others left out.
ConfiguracionesCompletas ==
    UNION {{u \in [S -> UNION {Opciones(s) : s \in S}] : \A s \in S : u[s] \in Opciones(s)} :
             S \in SUBSET Secciones}

\* Configurations that give some settings of one section only: the outlier
\* and text sections of ejemplo_uso.py, the Z-score method without a factor,
\* and the date and duplicate sections without their last settings.
ConfiguracionesParciales ==
    {"manejo_outliers" :>
        [habilitado |-> TRUE, metodo |-> "iqr", factor |-> [num |-> 3, den |-> 2]],
     "normalizacion_texto" :> [habilitada |-> TRUE, minusculas |-> TRUE],
     "manejo_outliers" :>
        [habilitado |-> TRUE, metodo |-> "zscore", columnas_numericas |-> {}],
     "normalizacion_fechas" :> [habilitada |-> TRUE, formato_entrada |-> "auto"],
     "manejo_duplicados" :> [mantener |-> "primero", subset |-> {}]}

\* Configurations with a name that validar_configuracion does not know.
ConfiguracionesInvalidas ==
    {"manejo_nulos" :> [estrategia |-> "descartar", imputacion |-> "media"],
     "manejo_nulos" :> [estrategia |-> "imputar", imputacion |-> "promedio"],
     "manejo_outliers" :>
        [habilitado |-> TRUE, metodo |-> "percentil", factor |-> [num |-> 3, den |-> 2],
         columnas_numericas |-> {}]}

ConfiguracionesLimpieza ==
    ConfiguracionesCompletas \cup ConfiguracionesParciales \cup ConfiguracionesInvalidas

\* TransformadorLimpieza(nombre, configuracion): __init__ merges and does not
\* validate.
InitLimpieza ==
    /\ EjecutorEnReposo
    /\ configuracion_final \in {Combinar(u) : u \in ConfiguracionesLimpieza}
    /\ datos_recibidos \in LotesLimpieza
    /\ LimpiezaEnReposo
    /\ metricas_calidad = Ninguno
    /\ APIEnReposo

\* The constructed transformer is registered with the orchestrator, if at
\* all, before its first call.
registrar_transformador_limpieza ==
    /\ etapa = "reposo"
    /\ transformadores = << >>
    /\ agregar_transformador("limpieza")

\* The first of the settings, in the order the code reads them, that the
\* section lacks: the KeyError of the read.
Faltan(seccion, claves) ==
    {k \in 1..Len(claves) : claves[k] \notin DOMAIN configuracion_final[seccion]}

KeyError(seccion, claves) ==
    [excepcion |-> "KeyError",
     args |-> claves[CHOOSE k \in Faltan(seccion, claves) :
                        \A j \in Faltan(seccion, claves) : k <= j]]

\* except Exception as e: raise ErrorTransformacion(error_msg) from e
lanzar_ErrorTransformacion(e) ==
    /\ etapa' = "ErrorTransformacion"
    /\ error_msg' = e
    /\ UNCHANGED << df_etapa, df_limpio, pasadas, registros_limpios >>

\* The settings validar_configuracion reads, in order.
ClavesValidadas ==
    LET n == configuracion_final.manejo_nulos
    IN  IF "estrategia" \in DOMAIN n /\ n.estrategia = "imputar"
        THEN << "estrategia", "imputacion" >>
        ELSE << "estrategia" >>

\* transformar is called, the first time on the record set given and then on
\* what the call before returned: the configuration is validated, an empty set
\* is returned as it is, and any other becomes a DataFrame.
TransformadorLimpieza_transformar ==
    /\ etapa \in {"reposo", "retornado"}
    /\ pasadas < MaxPasadas
    /\ LET entrada == IF etapa = "reposo" THEN datos_recibidos ELSE registros_limpios
       IN  /\ datos_recibidos' = entrada
           /\ IF Faltan("manejo_nulos", ClavesValidadas) # {}
              THEN lanzar_ErrorTransformacion(KeyError("manejo_nulos", ClavesValidadas))
              ELSE IF Faltan("manejo_outliers", << "metodo" >>) # {}
              THEN lanzar_ErrorTransformacion(KeyError("manejo_outliers", << "metodo" >>))
              ELSE IF ~validar_configuracion(configuracion_final)
              THEN lanzar_ErrorTransformacion(
                      [excepcion |-> "ErrorConfiguracion", args |-> ""])
              ELSE IF entrada = << >>
              THEN /\ etapa' = "retornado"
                   /\ registros_limpios' = << >>
                   /\ pasadas' = pasadas + 1
                   /\ UNCHANGED << df_etapa, df_limpio, error_msg >>
              ELSE /\ etapa' = "nulos"
                   /\ df_etapa' = DataFrame(entrada)
                   /\ df_limpio' = DataFrame(entrada)
                   /\ UNCHANGED << pasadas, registros_limpios, error_msg >>
    /\ UNCHANGED << vars_ejecutor, otra, configuracion_final, metricas_calidad,
                    vars_api >>

\* One stage of _aplicar_limpieza: the flag of its section is read and, when
\* it is set, the stage is given the cleaned DataFrame, reads its settings and
\* returns the new one.  A setting that the section lacks raises KeyError,
\* which leaves _aplicar_limpieza and is wrapped by transformar.
Etapa(actual, siguiente, seccion, habilitada, claves, df_nuevo) ==
    /\ etapa = actual
    /\ LET c == configuracion_final[seccion]
           leidas == IF habilitada \in DOMAIN c /\ c[habilitada]
                     THEN << habilitada >> \o claves
                     ELSE << habilitada >>
       IN  IF Faltan(seccion, leidas) # {}
           THEN lanzar_ErrorTransformacion(KeyError(seccion, leidas))
           ELSE /\ etapa' = siguiente
                /\ df_etapa' = df_limpio
                /\ df_limpio' = IF c[habilitada] THEN df_nuevo ELSE df_limpio
                /\ UNCHANGED << pasadas, registros_limpios, error_msg >>
    /\ UNCHANGED << vars_ejecutor, otra, configuracion_final, datos_recibidos,
                    metricas_calidad, vars_api >>

\* The null stage has no flag; validar_configuracion has read its settings.
aplicar_manejo_nulos ==
    /\ etapa = "nulos"
    /\ etapa' = "texto"
    /\ df_etapa' = df_limpio
    /\ df_limpio' = _manejar_valores_nulos(configuracion_final, df_limpio)
    /\ UNCHANGED << pasadas, registros_limpios, error_msg >>
    /\ UNCHANGED << vars_ejecutor, otra, configuracion_final, datos_recibidos,
                    metricas_calidad, vars_api >>

\* Mutant: the text stage runs whatever its flag.
aplicar_normalizacion_texto_siempre ==
    /\ etapa = "texto"
    /\ etapa' = "fechas"
    /\ df_etapa' = df_limpio
    /\ df_limpio' = _normalizar_texto(configuracion_default, df_limpio)
    /\ UNCHANGED << pasadas, registros_limpios, error_msg >>
    /\ UNCHANGED << vars_ejecutor, otra, configuracion_final, datos_recibidos,
                    metricas_calidad, vars_api >>

\* The text settings are read inside the loop, for an object column.
aplicar_normalizacion_texto ==
    Etapa("texto", "fechas", "normalizacion_texto", "habilitada",
          IF \E col \in Columnas(df_limpio) : dtype(df_limpio, col) = "object"
          THEN << "minusculas", "eliminar_espacios", "eliminar_caracteres_especiales",
                  "normalizar_acentos" >>
          ELSE << >>,
          _normalizar_texto(configuracion_final, df_limpio))

\* The date settings are read inside the try block of each column.
aplicar_normalizacion_fechas ==
    Etapa("fechas", "duplicados", "normalizacion_fechas", "habilitada", << >>,
          _normalizar_fechas(configuracion_final, df_limpio))

aplicar_manejo_duplicados ==
    Etapa("duplicados", "outliers", "manejo_duplicados", "habilitado",
          << "subset", "mantener" >>,
          _manejar_duplicados(configuracion_final, df_limpio))

aplicar_manejo_outliers ==
    Etapa("outliers", "validacion", "manejo_outliers", "habilitado",
          << "metodo", "factor", "columnas_numericas" >>,
          _manejar_outliers(configuracion_final, df_limpio))

aplicar_validacion_datos ==
    Etapa("validacion", "fin", "validacion_datos", "habilitada",
          << "rangos_numericos", "valores_permitidos", "longitud_texto" >>,
          _validar_datos(configuracion_final, df_limpio))

\* df_limpio.to_dict('records') is returned.
retornar_registros_limpios ==
    /\ etapa = "fin"
    /\ etapa' = "retornado"
    /\ registros_limpios' = df_limpio
    /\ pasadas' = pasadas + 1
    /\ UNCHANGED << vars_ejecutor, otra, configuracion_final, datos_recibidos,
                    df_etapa, df_limpio, error_msg, metricas_calidad, vars_api >>

NextLimpieza ==
    \/ registrar_transformador_limpieza
    \/ TransformadorLimpieza_transformar
    \/ aplicar_manejo_nulos
    \/ aplicar_normalizacion_texto
    \/ aplicar_normalizacion_fechas
    \/ aplicar_manejo_duplicados
    \/ aplicar_manejo_outliers
    \/ aplicar_validacion_datos
    \/ retornar_registros_limpios

SpecLimpieza == InitLimpieza /\ [][NextLimpieza]_vars

\* ------------------------------------------------ the API extractor at work
\* ExtractorAPI(nombre, url_base, configuracion).extraer().  The API holds a
\* list of records and serves it whole, or page by page; a request is answered
\* with status 200 and the records asked for, with another status, or not at
\* all (the request raises).  A step is a request.
Respuestas == {"200", "500", "ClientError"}

ServidoresAPI == {[k \in 1..n |-> k] : n \in 0..MaxServidor}

\* The paginacion section of the merged configuration: the default one, or
\* one that the caller gives whole.
ConfiguracionesAPI ==
    {[paginacion |-> [habilitada |-> FALSE, parametro_pagina |-> "page",
                      parametro_tamano |-> "size", tamano_pagina |-> 100,
                      max_paginas |-> 1000]]}
      \cup {[paginacion |-> [habilitada |-> TRUE, parametro_pagina |-> "page",
                             parametro_tamano |-> "size", tamano_pagina |-> t,
                             max_paginas |-> m]] :
               t \in 1..MaxTamanoPagina, m \in 0..MaxPaginas}

InitAPI ==
    /\ EjecutorEnReposo
    /\ configuracion_final \in ConfiguracionesAPI
    /\ datos_recibidos = << >>
    /\ LimpiezaEnReposo
    /\ metricas_calidad = Ninguno
    /\ servidor \in ServidoresAPI
    /\ extraccion = "reposo"
    /\ pagina_actual = 1
    /\ registros = << >>
    /\ peticiones = << >>

\* The records of a page of the given size.
Pagina(p, t) ==
    SubSeq(servidor, (p - 1) * t + 1,
           IF p * t <= Len(servidor) THEN p * t ELSE Len(servidor))

\* extraer is called: the configuration is valid, and the extraction goes on
\* with or without pagination; the paginated one starts at page 1 with no
\* record.
ExtractorAPI_extraer ==
    /\ extraccion = "reposo"
    /\ extraccion' = IF configuracion_final.paginacion.habilitada
                     THEN "_extraer_con_paginacion"
                     ELSE "_extraer_sin_paginacion"
    /\ pagina_actual' = 1
    /\ registros' = << >>
    /\ UNCHANGED << vars_ejecutor, otra, configuracion_final, vars_limpieza,
                    metricas_calidad, servidor, peticiones >>

\* _extraer_sin_paginacion: one request.  A status other than 200 raises
\* ErrorExtraccion, and so does, wrapped by extraer, the error of the request.
_extraer_sin_paginacion(respuesta) ==
    /\ extraccion = "_extraer_sin_paginacion"
    /\ peticiones' = Append(peticiones, [pagina |-> 0, respuesta |-> respuesta,
                                         registros_pagina |-> Len(servidor)])
    /\ IF respuesta = "200"
       THEN /\ extraccion' = "retornado"
            /\ registros' = servidor
       ELSE /\ extraccion' = "ErrorExtraccion"
            /\ UNCHANGED registros
    /\ UNCHANGED << vars_ejecutor, otra, configuracion_final, vars_limpieza,
                    metricas_calidad, servidor, pagina_actual >>

\* Mutant: a page with fewer records than the page size does not end the loop.
_extraer_con_paginacion_sin_corte(respuesta) ==
    /\ extraccion = "_extraer_con_paginacion"
    /\ pagina_actual <= configuracion_final.paginacion.max_paginas
    /\ LET tamano_pagina == configuracion_final.paginacion.tamano_pagina
           registros_pagina == Pagina(pagina_actual, tamano_pagina)
       IN  /\ peticiones' = Append(peticiones,
                                   [pagina |-> pagina_actual, respuesta |-> respuesta,
                                    registros_pagina |->
                                       IF respuesta = "200" THEN Len(registros_pagina)
                                       ELSE 0])
           /\ IF respuesta # "200" \/ registros_pagina = << >>
              THEN /\ extraccion' = "retornado"
                   /\ UNCHANGED << registros, pagina_actual >>
              ELSE /\ registros' = registros \o registros_pagina
                   /\ pagina_actual' = pagina_actual + 1
                   /\ UNCHANGED extraccion
    /\ UNCHANGED << vars_ejecutor, otra, configuracion_final, vars_limpieza,
                    metricas_calidad, servidor >>

\* One turn of the loop of _extraer_con_paginacion: the request of the page.
\* A status other than 200 and an error of the request are logged and end
\* the loop, as do a page without records and, once its records are added, a
\* page with fewer records than the page size; the records gathered are then
\* returned, by _extraer_con_paginacion and by extraer.
_extraer_con_paginacion(respuesta) ==
    /\ extraccion = "_extraer_con_paginacion"
    /\ pagina_actual <= configuracion_final.paginacion.max_paginas
    /\ LET tamano_pagina == configuracion_final.paginacion.tamano_pagina
           registros_pagina == Pagina(pagina_actual, tamano_pagina)
       IN  /\ peticiones' = Append(peticiones,
                                   [pagina |-> pagina_actual, respuesta |-> respuesta,
                                    registros_pagina |->
                                       IF respuesta = "200" THEN Len(registros_pagina)
                                       ELSE 0])
           /\ IF respuesta # "200" \/ registros_pagina = << >>
              THEN /\ extraccion' = "retornado"
                   /\ UNCHANGED << registros, pagina_actual >>
              ELSE IF Len(registros_pagina) < tamano_pagina
              THEN /\ extraccion' = "retornado"
                   /\ registros' = registros \o registros_pagina
                   /\ UNCHANGED pagina_actual
              ELSE /\ registros' = registros \o registros_pagina
                   /\ pagina_actual' = pagina_actual + 1
                   /\ UNCHANGED extraccion
    /\ UNCHANGED << vars_ejecutor, otra, configuracion_final, vars_limpieza,
                    metricas_calidad, servidor >>

\* while pagina_actual <= max_paginas is false: the records are returned.
fin_paginacion ==
    /\ extraccion = "_extraer_con_paginacion"
    /\ pagina_actual > configuracion_final.paginacion.max_paginas
    /\ extraccion' = "retornado"
    /\ UNCHANGED << vars_ejecutor, otra, configuracion_final, vars_limpieza,
                    metricas_calidad, servidor, pagina_actual, registros, peticiones >>

NextAPI ==
    \/ ExtractorAPI_extraer
    \/ \E respuesta \in Respuestas : _extraer_sin_paginacion(respuesta)
    \/ \E respuesta \in Respuestas : _extraer_con_paginacion(respuesta)
    \/ fin_paginacion

\* A request ends, by its answer or by the timeout of the session, and the
\* pause between two pages ends: a call that can go on does.
SpecAPI == InitAPI /\ [][NextAPI]_vars /\ WF_vars(NextAPI)

\* --------------------------------------------------- two calls of ejecutar()
\* Two coroutines of ejecutar() on one orchestrator.  One of them runs; the
\* event loop may suspend it at an await and resume the other.  What is
\* registered does not change while a call is running.
ExtractoresRegistrados == UNION {[1..n -> ExtractorBase] : n \in 0..2}
TransformadoresRegistrados == UNION {[1..n -> TransformadorBase] : n \in 0..1}
CargadoresRegistrados == UNION {[1..n -> CargadorBase] : n \in 0..1}
ValidadoresRegistrados == UNION {[1..n -> ValidadorBase] : n \in 0..1}

InitConcurrente ==
    /\ configuracion \in [validar_entrada : BOOLEAN, validar_salida : BOOLEAN]
    /\ extractores \in ExtractoresRegistrados
    /\ transformadores \in TransformadoresRegistrados
    /\ cargadores \in CargadoresRegistrados
    /\ validadores \in ValidadoresRegistrados
    /\ Registrados <= MaxColaboradores
    /\ fase = "Idle"
    /\ i = 1
    /\ parametros = "ninguno"
    /\ datos_extraidos = << >>
    /\ datos_transformados = << >>
    /\ archivos_generados = << >>
    /\ llamadas = << >>
    /\ fases = << >>
    /\ resultado = Ninguno
    /\ Aparte

\* The locals of the call that runs.
Locales ==
    [fase |-> fase, i |-> i, parametros |-> parametros,
     datos_extraidos |-> datos_extraidos, datos_transformados |-> datos_transformados,
     archivos_generados |-> archivos_generados, llamadas |-> llamadas,
     fases |-> fases, resultado |-> resultado]

\* Mutant: the transformed set is an attribute of the orchestrator, which the
\* call resumed finds as the call suspended left it.
ceder_compartiendo ==
    /\ EnCurso \/ (fase = "Idle" /\ otra.fase # "Idle")
    /\ otra' = Locales
    /\ fase' = otra.fase
    /\ i' = otra.i
    /\ parametros' = otra.parametros
    /\ datos_extraidos' = otra.datos_extraidos
    /\ archivos_generados' = otra.archivos_generados
    /\ llamadas' = otra.llamadas
    /\ fases' = otra.fases
    /\ resultado' = otra.resultado
    /\ UNCHANGED << registro, datos_transformados, configuracion_final,
                    vars_limpieza, metricas_calidad, vars_api >>

\* The call that runs is suspended at an await and the other call goes on,
\* with its own locals; when no call runs, the suspended one is resumed.  A
\* call that has built its result returns it without an await.
ceder ==
    /\ EnCurso \/ (fase = "Idle" /\ otra.fase # "Idle")
    /\ otra' = Locales
    /\ fase' = otra.fase
    /\ i' = otra.i
    /\ parametros' = otra.parametros
    /\ datos_extraidos' = otra.datos_extraidos
    /\ datos_transformados' = otra.datos_transformados
    /\ archivos_generados' = otra.archivos_generados
    /\ llamadas' = otra.llamadas
    /\ fases' = otra.fases
    /\ resultado' = otra.resultado
    /\ UNCHANGED << registro, configuracion_final, vars_limpieza,
                    metricas_calidad, vars_api >>

NextConcurrente ==
    \/ \E p \in Parametros : ejecutar(p)
    \/ ejecutar_extraccion
    \/ fin_extraccion
    \/ ejecutar_validacion_entrada
    \/ fin_validacion_entrada
    \/ ejecutar_transformacion
    \/ fin_transformacion
    \/ ejecutar_validacion_salida
    \/ fin_validacion_salida
    \/ ejecutar_carga
    \/ fin_carga
    \/ calcular_metricas
    \/ retornar
    \/ ceder

SpecConcurrente == InitConcurrente /\ [][NextConcurrente]_vars

\* ==================================================================== claims
Rango(rol) ==
    CASE rol = "extractor" -> 1
      [] rol = "validar_entrada" -> 2
      [] rol = "transformador" -> 3
      [] rol = "validar_salida" -> 4
      [] rol = "cargador" -> 5

Roles == {"extractor", "validar_entrada", "transformador", "validar_salida", "cargador"}

FaseDe(rol) ==
    CASE rol = "extractor" -> "Extracting"
      [] rol = "validar_entrada" -> "ValidatingInput"
      [] rol = "transformador" -> "Transforming"
      [] rol = "validar_salida" -> "ValidatingOutput"
      [] rol = "cargador" -> "Loading"

\* The calls of the run so far made to collaborators of one role.
Cuenta(rol) == Cardinality({k \in 1..Len(llamadas) : llamadas[k].rol = rol})

\* The calls a phase makes when nothing raises.
Esperadas(rol) ==
    CASE rol = "extractor" -> Len(extractores)
      [] rol = "validar_entrada" ->
            IF configuracion.validar_entrada
            THEN Cardinality({k \in 1..Len(validadores) : validadores[k].entrada})
            ELSE 0
      [] rol = "transformador" -> Len(transformadores)
      [] rol = "validar_salida" ->
            IF configuracion.validar_salida
            THEN Cardinality({k \in 1..Len(validadores) : validadores[k].salida})
            ELSE 0
      [] rol = "cargador" -> Len(cargadores)

\* The phases of a run that completes, under the configuration.
FasesHabilitadas ==
    << "Extracting" >>
      \o (IF configuracion.validar_entrada THEN << "ValidatingInput" >> ELSE << >>)
      \o << "Transforming" >>
      \o (IF configuracion.validar_salida THEN << "ValidatingOutput" >> ELSE << >>)
      \o << "Loading", "ScoringQuality" >>

EsPrefijo(s, t) == Len(s) <= Len(t) /\ \A k \in 1..Len(s) : s[k] = t[k]

AlgunaLanza == \E k \in 1..Len(llamadas) : llamadas[k].lanza

\* C1: ejecutar() never lets an exception out.  Whichever collaborator raised,
\* the call ends with exactly one result, which is Failed and holds the message
\* of that collaborator in its errors list; a result exists exactly when the
\* call has ended.
C1_NuncaPropaga ==
    /\ fase \in {"Idle", "Extracting", "ValidatingInput", "Transforming",
                 "ValidatingOutput", "Loading", "ScoringQuality",
                 "Completed", "Failed"}
    /\ (resultado # Ninguno) <=> (fase \in {"Completed", "Failed"})
    /\ \A k \in 1..Len(llamadas) :
          llamadas[k].lanza =>
             /\ fase = "Failed"
             /\ resultado.estado = "Failed"
             /\ \E m \in 1..Len(resultado.errores) :
                   resultado.errores[m] = Mensaje(llamadas[k].rol, llamadas[k].indice)

\* Witness of C1: an output hook raised after extraction and transformation
\* went through, and the call returned a result.
C1_Testigo ==
    /\ fase = "Failed"
    /\ Len(llamadas) >= 3
    /\ llamadas[Len(llamadas)].rol = "validar_salida"
    /\ llamadas[Len(llamadas)].lanza
    /\ resultado.errores = << Mensaje("validar_salida", 1) >>

\* C2: the phases of a run occur in the order extract, validate input (if
\* enabled), transform, validate output (if enabled), load, score.  The phases
\* entered so far are a prefix of the enabled phases, the calls made so far are
\* ordered by phase and made in a phase the run has entered, a collaborator of
\* a phase is called only after every collaborator of the earlier phases has
\* been called and has returned, and a Completed run has entered every enabled
\* phase exactly once, calling every collaborator of it.
C2_OrdenDeFases ==
    /\ EsPrefijo(fases, FasesHabilitadas)
    /\ EnCurso => fases # << >> /\ fases[Len(fases)] = fase
    /\ \A j, k \in 1..Len(llamadas) :
          j < k => Rango(llamadas[j].rol) <= Rango(llamadas[k].rol)
    /\ \A k \in 1..Len(llamadas) :
          \E f \in 1..Len(fases) : fases[f] = FaseDe(llamadas[k].rol)
    /\ \A r \in Roles :
          (\E k \in 1..Len(llamadas) : Rango(r) < Rango(llamadas[k].rol)) =>
             /\ Cuenta(r) = Esperadas(r)
             /\ \A k \in 1..Len(llamadas) : llamadas[k].rol = r => ~llamadas[k].lanza
    /\ fase = "Completed" =>
          /\ fases = FasesHabilitadas
          /\ \A r \in Roles : Cuenta(r) = Esperadas(r)

\* Witness of C2: a run with both validations enabled completed after calling
\* a collaborator of each of the five roles.
C2_Testigo ==
    /\ fase = "Completed"
    /\ configuracion.validar_entrada
    /\ configuracion.validar_salida
    /\ \A r \in Roles : Cuenta(r) > 0

\* C3: for every result returned, records_failed = records_in - records_out
\* and 0 <= success_rate <= 1, the rate being records_out / records_in, and 0
\* when records_in is 0; transformers may return more records than they get.
C3_Conteos ==
    resultado # Ninguno =>
       /\ resultado.registros_fallidos
             = resultado.registros_procesados - resultado.registros_exitosos
       /\ 0 <= resultado.tasa_exito.num
       /\ resultado.tasa_exito.num <= resultado.tasa_exito.den
       /\ IF resultado.registros_procesados = 0
          THEN resultado.tasa_exito.num = 0
          ELSE resultado.tasa_exito.num * resultado.registros_procesados
                  = resultado.registros_exitosos * resultado.tasa_exito.den

\* C4: fail-fast.  A call that raised is the last call of its run, and the run
\* is Failed: no later extractor, hook, transformer or loader is called.
C4_FailFast ==
    \A k \in 1..Len(llamadas) :
       llamadas[k].lanza => (k = Len(llamadas) /\ fase = "Failed")

\* Witness of C4: the first of two extractors raised; the second extractor, the
\* registered transformer and the registered loader were never called.
C4_Testigo ==
    /\ fase = "Failed"
    /\ Len(extractores) = 2
    /\ Len(transformadores) > 0
    /\ Len(cargadores) > 0
    /\ Len(llamadas) = 1
    /\ llamadas[1].rol = "extractor"
    /\ llamadas[1].lanza

\* C5: when an extractor raises, the result is Failed, has exactly one error,
\* reports records_in = records_out = 0, and ends no earlier than it started.
C5_FallaDeExtractor ==
    \A k \in 1..Len(llamadas) :
       (llamadas[k].rol = "extractor" /\ llamadas[k].lanza) =>
          /\ resultado.estado = "Failed"
          /\ Len(resultado.errores) = 1
          /\ resultado.registros_procesados = 0
          /\ resultado.registros_exitosos = 0
          /\ resultado.fecha_fin >= resultado.fecha_inicio

\* Witness of C5: the second extractor raised after the first returned records.
C5_Testigo ==
    /\ fase = "Failed"
    /\ Len(llamadas) = 2
    /\ llamadas[2].rol = "extractor"
    /\ llamadas[2].lanza
    /\ datos_extraidos # << >>

\* C6: when a loader raises after extraction and transformation succeeded, the
\* result reports records_out = size of the transformed set, an empty artifact
\* list and a non-empty errors list.
C6_FallaDeCargador ==
    \A k \in 1..Len(llamadas) :
       (llamadas[k].rol = "cargador" /\ llamadas[k].lanza) =>
          /\ resultado.registros_exitosos = Len(datos_transformados)
          /\ resultado.archivos_salida = << >>
          /\ resultado.errores # << >>

PrimeraQueLanza(k) ==
    /\ llamadas[k].lanza
    /\ \A j \in 1..(k - 1) : ~llamadas[j].lanza

\* C7 as stated: the errors list is empty exactly for Completed results, and a
\* Failed result holds the message of the first collaborator that raised.
C7_Original ==
    resultado # Ninguno =>
       /\ (resultado.errores = << >>) <=> (resultado.estado = "Completed")
       /\ resultado.estado = "Failed" =>
             /\ resultado.errores # << >>
             /\ \E k \in 1..Len(llamadas) :
                   /\ PrimeraQueLanza(k)
                   /\ resultado.errores[1] = Mensaje(llamadas[k].rol, llamadas[k].indice)

\* C7 as amended: the errors list is empty exactly for Completed results, which
\* went through every enabled phase.  A Failed result holds exactly one error:
\* the message of the first collaborator that raised or, when every collaborator
\* returned, the message of the exception raised by the quality computation.
C7_Errores ==
    resultado # Ninguno =>
       /\ (resultado.errores = << >>) <=> (resultado.estado = "Completed")
       /\ resultado.estado = "Completed" => fases = FasesHabilitadas
       /\ resultado.estado = "Failed" =>
             /\ Len(resultado.errores) = 1
             /\ IF AlgunaLanza
                THEN \E k \in 1..Len(llamadas) :
                        /\ PrimeraQueLanza(k)
                        /\ resultado.errores[1]
                              = Mensaje(llamadas[k].rol, llamadas[k].indice)
                ELSE /\ fases = FasesHabilitadas
                     /\ MetricasFalla(datos_transformados)
                     /\ resultado.errores[1] = Mensaje("calcular_metricas_calidad", 0)

\* Witness of C7: every collaborator returned, the loaders included, and the
\* run is Failed with the error of the quality computation.
C7_Testigo ==
    /\ fase = "Failed"
    /\ ~AlgunaLanza
    /\ Cuenta("cargador") > 0
    /\ Len(resultado.errores) = 1

\* The concatenation of what the first n registered extractors return.
RECURSIVE Concatenar(_)
Concatenar(n) ==
    IF n = 0 THEN << >> ELSE Concatenar(n - 1) \o extractores[n].datos

\* The extracted set piped through the first n registered transformers.
RECURSIVE Tuberia(_)
Tuberia(n) ==
    IF n = 0
    THEN Concatenar(Len(extractores))
    ELSE transformar(transformadores[n], Tuberia(n - 1))

\* Whether the run has entered phase f.
HaEntrado(f) == \E k \in 1..Len(fases) : fases[k] = f

Llamado(rol, v) ==
    \E k \in 1..Len(llamadas) : llamadas[k].rol = rol /\ llamadas[k].indice = v

\* C8: a hook is called only if the configuration enables it and the validator
\* exposes it, and once the run has gone past a validation phase, or past the
\* place of a disabled one, the hooks called are exactly those enabled and
\* exposed; a validator without a hook is skipped without error.  Input hooks
\* are given the extracted set, output hooks the transformed set.
C8_Hooks ==
    /\ \A k \in 1..Len(llamadas) :
          /\ llamadas[k].rol = "validar_entrada" =>
                /\ configuracion.validar_entrada
                /\ validadores[llamadas[k].indice].entrada
                /\ llamadas[k].datos = Concatenar(Len(extractores))
          /\ llamadas[k].rol = "validar_salida" =>
                /\ configuracion.validar_salida
                /\ validadores[llamadas[k].indice].salida
                /\ llamadas[k].datos = Tuberia(Len(transformadores))
    /\ HaEntrado("Transforming") =>
          \A v \in 1..Len(validadores) :
             Llamado("validar_entrada", v)
                <=> (configuracion.validar_entrada /\ validadores[v].entrada)
    /\ HaEntrado("Loading") =>
          \A v \in 1..Len(validadores) :
             Llamado("validar_salida", v)
                <=> (configuracion.validar_salida /\ validadores[v].salida)

\* Witness of C8: with both validations enabled, a validator that exposes only
\* the input hook was called once, on the extracted set, in a run that
\* completed and whose transformed set differs from the extracted one.
C8_Testigo ==
    /\ fase = "Completed"
    /\ configuracion.validar_entrada
    /\ configuracion.validar_salida
    /\ validadores = << [entrada |-> TRUE, salida |-> FALSE] >>
    /\ Cuenta("validar_entrada") = 1
    /\ Cuenta("validar_salida") = 0
    /\ datos_extraidos # datos_transformados

\* C9: the transformers are applied in registration order as a pipe: the k-th
\* transformer call is to transformer k with the extracted set piped through
\* transformers 1..k-1, and what the last transformer returns (the extracted
\* set when there is none) is what the output hooks, the loaders and the
\* scoring get.
C9_Tuberia ==
    /\ \A k \in 1..Len(llamadas) :
          /\ llamadas[k].rol = "transformador" =>
                /\ llamadas[k].indice
                      = Cardinality({j \in 1..k : llamadas[j].rol = "transformador"})
                /\ llamadas[k].datos = Tuberia(llamadas[k].indice - 1)
          /\ llamadas[k].rol \in {"validar_salida", "cargador"} =>
                llamadas[k].datos = Tuberia(Len(transformadores))
    /\ fase = "Completed" =>
          /\ resultado.registros_exitosos = Len(Tuberia(Len(transformadores)))
          /\ resultado.completitud_datos
                = calcular_metricas_calidad(Tuberia(Len(transformadores))).completitud
          /\ resultado.consistencia_datos
                = calcular_metricas_calidad(Tuberia(Len(transformadores))).consistencia

\* Witness of C9: two different transformers ran in a completed run whose
\* extracted set holds a null, and a loader got the final set.
C9_Testigo ==
    /\ fase = "Completed"
    /\ transformadores = << "duplica", "sin_nulos" >>
    /\ Cuenta("transformador") = 2
    /\ Cuenta("cargador") > 0
    /\ datos_extraidos = LoteConNulo
    /\ Len(datos_transformados) = 2
    /\ datos_transformados # datos_extraidos

\* C10: the extracted set is the concatenation, in registration order, of what
\* the extractors return; every extractor is given the parameters of the run;
\* records_in of a successful run is the length of the concatenation.
C10_Extraccion ==
    /\ \A k \in 1..Len(llamadas) :
          llamadas[k].rol = "extractor" =>
             /\ llamadas[k].indice = k
             /\ llamadas[k].parametros = parametros
    /\ fase = "Extracting" => datos_extraidos = Concatenar(i - 1)
    /\ HaEntrado("ValidatingInput") \/ HaEntrado("Transforming") =>
          datos_extraidos = Concatenar(Len(extractores))
    /\ fase = "Completed" =>
          resultado.registros_procesados = Len(Concatenar(Len(extractores)))

\* Witness of C10: two extractors returning different records, called with a
\* parameter, in a run that completed with records_in = 3.
C10_Testigo ==
    /\ fase = "Completed"
    /\ parametros = "filtro"
    /\ Len(extractores) = 2
    /\ extractores[1].datos = LoteLimpio
    /\ extractores[2].datos = LoteConNulo
    /\ datos_extraidos = LoteLimpio \o LoteConNulo
    /\ resultado.registros_procesados = 3

\* The concatenation of what the first n registered loaders return.
RECURSIVE Artefactos(_)
Artefactos(n) ==
    IF n = 0 THEN << >> ELSE Artefactos(n - 1) \o cargadores[n].archivos

\* C11: the loaders are called in registration order, each with the final
\* transformed set, and the artifact list of a successful run is the
\* concatenation, in registration order, of what each loader returned.
C11_Carga ==
    /\ \A k \in 1..Len(llamadas) :
          llamadas[k].rol = "cargador" =>
             /\ llamadas[k].indice
                   = Cardinality({j \in 1..k : llamadas[j].rol = "cargador"})
             /\ llamadas[k].datos = Tuberia(Len(transformadores))
    /\ fase = "Loading" => archivos_generados = Artefactos(i - 1)
    /\ fase = "Completed" =>
          /\ Cuenta("cargador") = Len(cargadores)
          /\ resultado.archivos_salida = Artefactos(Len(cargadores))

\* Witness of C11: two loaders returning different identifiers were called
\* after a transformer changed the set, and the run completed with the three
\* identifiers in registration order.
C11_Testigo ==
    /\ fase = "Completed"
    /\ Len(cargadores) = 2
    /\ datos_transformados # datos_extraidos
    /\ llamadas[Len(llamadas)].rol = "cargador"
    /\ llamadas[Len(llamadas)].indice = 2
    /\ resultado.archivos_salida = << "salida.json", "salida.log", "salida.csv" >>

\* C12: no retry.  Within one run no extractor, hook, transformer or loader is
\* called twice, whether it returned or raised.
C12_SinReintento ==
    \A j, k \in 1..Len(llamadas) :
       j < k => (llamadas[j].rol # llamadas[k].rol
                   \/ llamadas[j].indice # llamadas[k].indice)

\* Witness of C12: a loader raised, after an extractor and a transformer
\* returned, and the run failed with that loader called once.
C12_Testigo ==
    /\ fase = "Failed"
    /\ Len(llamadas) >= 3
    /\ llamadas[Len(llamadas)].rol = "cargador"
    /\ llamadas[Len(llamadas)].lanza
    /\ Cuenta("cargador") = 1

\* C14: a run that lasts longer than timeout_segundos returns a Failed result
\* whose error is a timeout, and starts no phase after the timeout.
C14_Timeout ==
    (resultado # Ninguno
       /\ resultado.fecha_fin - resultado.fecha_inicio > timeout_segundos) =>
          /\ resultado.estado = "Failed"
          /\ resultado.errores = << Mensaje("timeout", 0) >>

\* C15: a run whose share of failed records exceeds tolerancia_errores is
\* failed: its result holds at least one error.
C15_Tolerancia ==
    (resultado # Ninguno
       /\ resultado.registros_procesados > 0
       /\ resultado.registros_fallidos * tolerancia_errores.den
             > tolerancia_errores.num * resultado.registros_procesados) =>
          resultado.errores # << >>

\* The cells of the final set of the run that hold a value, and its rows that
\* repeat an earlier row.
CeldasConValor ==
    Cardinality({kc \in (1..Len(datos_transformados)) \X {"a", "b"} :
                    datos_transformados[kc[1]][kc[2]] # "nulo"})

FilasRepetidas ==
    Cardinality({k \in 1..Len(datos_transformados) :
                    \E j \in 1..(k - 1) : datos_transformados[j] = datos_transformados[k]})

\* The distance, in hundredths of a percent times den, between a score kept
\* in hundredths of a percent and 100 * num / den.
Desvio(puntaje, num, den) ==
    IF puntaje * den >= 10000 * num
    THEN puntaje * den - 10000 * num
    ELSE 10000 * num - puntaje * den

\* C17 as stated: on a successful run completeness is exactly
\* 100 * non-null cells / cells and consistency exactly
\* 100 * (1 - duplicates / records) of the final transformed set, and the three
\* scores of an empty final set are 0.
C17_Original ==
    fase = "Completed" =>
       IF datos_transformados = << >>
       THEN /\ resultado.completitud_datos = 0
            /\ resultado.consistencia_datos = 0
            /\ resultado.precision_datos = 0
       ELSE /\ Desvio(resultado.completitud_datos, CeldasConValor,
                      2 * Len(datos_transformados)) = 0
            /\ Desvio(resultado.consistencia_datos,
                      Len(datos_transformados) - FilasRepetidas,
                      Len(datos_transformados)) = 0

\* C17 as amended: the two scores are those ratios rounded to two decimals:
\* each is a whole number of hundredths at most half a hundredth away from
\* the ratio.  The three scores of an empty final set are 0.
C17_Metricas ==
    fase = "Completed" =>
       IF datos_transformados = << >>
       THEN /\ resultado.completitud_datos = 0
            /\ resultado.consistencia_datos = 0
            /\ resultado.precision_datos = 0
       ELSE /\ 2 * Desvio(resultado.completitud_datos, CeldasConValor,
                          2 * Len(datos_transformados))
                  <= 2 * Len(datos_transformados)
            /\ 2 * Desvio(resultado.consistencia_datos,
                          Len(datos_transformados) - FilasRepetidas,
                          Len(datos_transformados))
                  <= Len(datos_transformados)

\* Witness of C17: a run completed on a final set of three records with one
\* null cell of six and one repeated row: 83.33 and 66.67.
C17_Testigo ==
    /\ fase = "Completed"
    /\ Len(datos_transformados) = 3
    /\ CeldasConValor = 5
    /\ FilasRepetidas = 1
    /\ resultado.completitud_datos = 8333
    /\ resultado.consistencia_datos = 6667

\* C16: whatever the record set (empty, columns of nulls only, one column, all
\* rows alike), the completeness, consistency and precision that the scorer
\* returns lie between 0 and 100, here in hundredths.
C16_Rango ==
    "completitud" \in DOMAIN metricas_calidad =>
       /\ metricas_calidad.completitud \in 0..10000
       /\ metricas_calidad.consistencia \in 0..10000
       /\ metricas_calidad.precision \in 0..10000

\* Witness of C16: a set of five records scored, with a numeric column that
\* has an extreme outlier and a text column with a null: 90, 60 and 66.67.
C16_Testigo ==
    /\ Len(datos_recibidos) = 5
    /\ "completitud" \in DOMAIN metricas_calidad
    /\ metricas_calidad.completitud = 9000
    /\ metricas_calidad.consistencia = 6000
    /\ metricas_calidad.precision = 6667
    /\ dtype(datos_recibidos, "a") = "float64"
    /\ _tiene_outliers_extremos(datos_recibidos, "a")

\* C18: the cleansing transformer is idempotent: under every valid
\* configuration, a call of transformar on what a call returned returns that
\* same record set.
C18_Idempotencia ==
    (etapa = "retornado" /\ pasadas >= 2) => registros_limpios = datos_recibidos

\* The rows of the DataFrame given to the duplicates stage that have the key
\* of no earlier row.
SinAnterior ==
    LET clave == IF configuracion_final.manejo_duplicados.subset = {}
                 THEN Columnas(df_etapa)
                 ELSE configuracion_final.manejo_duplicados.subset
    IN  {k \in 1..Len(df_etapa) :
            \A j \in 1..(k - 1) : \E col \in clave : df_etapa[j][col] # df_etapa[k][col]}

\* C19: duplicates, keep-first.  Of the records of the input of the stage
\* that are equal under the key (all the fields, or the configured subset), the
\* one of lowest index is in the output and no other; a record with no earlier
\* record of its key is kept; the records kept are in their original order.
C19_PrimeroSeConserva ==
    (/\ etapa = "outliers"
     /\ configuracion_final.manejo_duplicados.habilitado
     /\ configuracion_final.manejo_duplicados.mantener = "primero") =>
        /\ Len(df_limpio) = Cardinality(SinAnterior)
        /\ \A m \in 1..Len(df_limpio) :
              \E k \in SinAnterior :
                 /\ Cardinality({j \in SinAnterior : j <= k}) = m
                 /\ df_limpio[m] = df_etapa[k]

\* Witness of C19: the key is column a, and of three records the first and
\* the third, which differ in column b, have the same key: the first is kept,
\* the third is not.
C19_Testigo ==
    /\ etapa = "outliers"
    /\ configuracion_final.manejo_duplicados.habilitado
    /\ configuracion_final.manejo_duplicados.mantener = "primero"
    /\ configuracion_final.manejo_duplicados.subset = {<< "a" >>}
    /\ Len(df_etapa) = 3
    /\ df_etapa[1][<< "a" >>] = df_etapa[3][<< "a" >>]
    /\ df_etapa[1] # df_etapa[3]
    /\ df_etapa[2][<< "a" >>] # df_etapa[1][<< "a" >>]
    /\ df_limpio = << df_etapa[1], df_etapa[2] >>

\* The scenario of C20: nulls dropped, duplicates keep-first, outliers
\* disabled, every other setting left to its default.
ConfiguracionEscenario ==
    Combinar("manejo_outliers" :>
                [habilitado |-> FALSE, metodo |-> "iqr",
                 factor |-> [num |-> 3, den |-> 2], columnas_numericas |-> {}])

LoteEscenario == << Fila("1", "X"), Fila("nulo", "x"), Fila("1", "X") >>

Escenario ==
    /\ etapa = "retornado"
    /\ pasadas = 1
    /\ configuracion_final = ConfiguracionEscenario
    /\ datos_recibidos = LoteEscenario

\* C20 as stated: the scenario returns the one record {a: 1, b: "X"}, its
\* values unchanged, from 3 records in: records_in = 3, records_out = 1.
C20_Original ==
    Escenario =>
       /\ registros_limpios = << Fila("1", "X") >>
       /\ Len(datos_recibidos) = 3
       /\ Len(registros_limpios) = 1

\* C20 as amended: the scenario returns the one record {a: 1, b: "x"}: the
\* record with the null is dropped, the duplicate is removed, and the text of
\* the record kept is lower-cased by the text normalization, which is enabled
\* by default; records_in = 3 and records_out = 1.
C20_Escenario ==
    Escenario =>
       /\ registros_limpios = << Fila("1", "x") >>
       /\ Len(datos_recibidos) = 3
       /\ Len(registros_limpios) = 1

\* Witness of C20: the scenario has run.
C20_Testigo ==
    /\ Escenario
    /\ Len(registros_limpios) = 1

\* The first registered collaborator that meets a condition.
Primero(S) == CHOOSE k \in S : \A j \in S : k <= j

\* What a call of ejecutar() returns when it is the only call: the error of
\* the first collaborator that raises, in the order of the phases, or the
\* counts, scores and artifacts of the sets the collaborators return.
ResultadoSolo(fin) ==
    LET E == Concatenar(Len(extractores))
        T == Tuberia(Len(transformadores))
        fallan == {k \in 1..Len(extractores) : extractores[k].falla}
        rechazanE == {v \in 1..Len(validadores) :
                         validadores[v].entrada /\ ValidadorRechaza(E)}
        lanzan == {t \in 1..Len(transformadores) : transformadores[t] = "falla"}
        rechazanS == {v \in 1..Len(validadores) :
                         validadores[v].salida /\ ValidadorRechaza(T)}
        noCargan == {c \in 1..Len(cargadores) : cargadores[c].falla}
    IN  IF fallan # {}
        THEN ResultadoError(Mensaje("extractor", Primero(fallan)), fin)
        ELSE IF configuracion.validar_entrada /\ rechazanE # {}
        THEN ResultadoError(Mensaje("validar_entrada", Primero(rechazanE)), fin)
        ELSE IF lanzan # {}
        THEN ResultadoError(Mensaje("transformador", Primero(lanzan)), fin)
        ELSE IF configuracion.validar_salida /\ rechazanS # {}
        THEN ResultadoError(Mensaje("validar_salida", Primero(rechazanS)), fin)
        ELSE IF noCargan # {}
        THEN ResultadoError(Mensaje("cargador", Primero(noCargan)), fin)
        ELSE IF MetricasFalla(T)
        THEN ResultadoError(Mensaje("calcular_metricas_calidad", 0), fin)
        ELSE [estado |-> "Completed",
              fecha_inicio |-> fecha_inicio,
              fecha_fin |-> fin,
              registros_procesados |-> Len(E),
              registros_exitosos |-> Len(T),
              registros_fallidos |-> Len(E) - Len(T),
              tasa_exito |-> tasa_exito(E, T),
              completitud_datos |-> calcular_metricas_calidad(T).completitud,
              consistencia_datos |-> calcular_metricas_calidad(T).consistencia,
              precision_datos |-> calcular_metricas_calidad(T).precision,
              errores |-> << >>,
              archivos_salida |-> Artefactos(Len(cargadores))]

\* C13: of two calls of ejecutar() on one orchestrator, one after the other or
\* interleaved at the awaits, each returns what it returns when it is the only
\* call (the collaborators being reentrant): the record sets of a call are
\* its locals, which the other call does not touch.
C13_Reentrante ==
    /\ resultado # Ninguno => resultado = ResultadoSolo(resultado.fecha_fin)
    /\ otra.resultado = Ninguno
    /\ (fase = "Idle" /\ otra.fase = "Idle") =>
          /\ datos_extraidos = << >> /\ datos_transformados = << >>
          /\ otra.datos_extraidos = << >> /\ otra.datos_transformados = << >>

\* Witness of C13: a call ran from its start to Completed while the other
\* call was suspended in its transformation phase, with the sets it had so far;
\* the transformer changes the set it is given.
C13_Testigo ==
    /\ fase = "Completed"
    /\ otra.fase = "Transforming"
    /\ otra.i = 1
    /\ otra.datos_transformados # << >>
    /\ datos_transformados # datos_extraidos
    /\ Len(llamadas) >= 3

\* ---------------------------------------------------------------------- C24
\* A step appends one collaborator at the end of one list.
SeAgrega(lista, lista_nueva) ==
    /\ Len(lista_nueva) = Len(lista) + 1
    /\ SubSeq(lista_nueva, 1, Len(lista)) = lista

\* C24: a step never changes the configuration; a step that changes a list
\* of collaborators appends one entry at its end, keeps the earlier entries in
\* their order and leaves the other three lists as they were; and a step of a
\* call of ejecutar() (from its start to its return) changes none of the lists.
C24_Registro ==
    [][/\ configuracion' = configuracion
       /\ extractores' # extractores =>
             /\ SeAgrega(extractores, extractores')
             /\ UNCHANGED << transformadores, cargadores, validadores >>
       /\ transformadores' # transformadores =>
             /\ SeAgrega(transformadores, transformadores')
             /\ UNCHANGED << extractores, cargadores, validadores >>
       /\ cargadores' # cargadores =>
             /\ SeAgrega(cargadores, cargadores')
             /\ UNCHANGED << extractores, transformadores, validadores >>
       /\ validadores' # validadores =>
             /\ SeAgrega(validadores, validadores')
             /\ UNCHANGED << extractores, transformadores, cargadores >>
       /\ (fase # "Idle" \/ fase' # "Idle") => UNCHANGED registro]_vars

\* A run completed with two loaders registered, and one collaborator of each
\* other role.
C24_Testigo ==
    /\ fase = "Completed"
    /\ Len(cargadores) = 2
    /\ cargadores[1] # cargadores[2]
    /\ Len(extractores) = 1
    /\ Len(transformadores) = 1

\* ---------------------------------------------------------------------- C29
\* The three criteria, as the claim reads them for a column of the set scored:
\* no infinite and no extreme numeric value, no value of a text column that
\* is not a str, and fewer than half of the cells null.
CumpleCriterios(c) ==
    /\ dtype(datos_recibidos, c) = "float64" =>
          /\ \A k \in NoNulos(datos_recibidos, c) : Celda(datos_recibidos, k, c) # "inf"
          /\ ~_tiene_outliers_extremos(datos_recibidos, c)
    /\ dtype(datos_recibidos, c) = "object" => _es_texto_consistente(datos_recibidos, c)
    /\ 2 * (Len(datos_recibidos) - Cardinality(NoNulos(datos_recibidos, c)))
          < Len(datos_recibidos)

\* C29: a record set in which every column meets every criterion is scored a
\* precision of 100 (here in hundredths): each column contributes the
\* criteria it meets, of three.
C29_Precision ==
    ("precision" \in DOMAIN metricas_calidad
        /\ datos_recibidos # << >>
        /\ \A c \in Columnas(datos_recibidos) : CumpleCriterios(c))
       => metricas_calidad.precision = 10000

\* ---------------------------------------------------------------------- C21
\* The outlier stage has just run with the IQR method and k = 1.5 on a
\* DataFrame whose column a holds 10, 12, 11, 13, 1000.
EjemploIQR ==
    /\ etapa = "validacion"
    /\ configuracion_final.manejo_outliers.habilitado
    /\ configuracion_final.manejo_outliers.metodo = "iqr"
    /\ configuracion_final.manejo_outliers.factor = [num |-> 3, den |-> 2]
    /\ [k \in 1..Len(df_etapa) |-> df_etapa[k][<< "a" >>]]
          = << "10", "12", "11", "13", "1000" >>

\* C21: outlier handling with the IQR method and k = 1.5 on a numeric column
\* with the values 10, 12, 11, 13, 1000 removes the row that holds 1000 and
\* keeps the other four rows, in their original order.
C21_IQR ==
    EjemploIQR => df_limpio = SubSeq(df_etapa, 1, 4)

\* Witness of C21: the stage has run on the example and returned four rows,
\* none of them the row of 1000.
C21_Testigo ==
    /\ EjemploIQR
    /\ Len(df_limpio) = 4
    /\ \A k \in 1..4 : df_limpio[k][<< "a" >>] # "1000"

\* ---------------------------------------------------------------------- C25
\* What a stage makes of a DataFrame: itself when the flag of the stage is
\* not set.
SiHabilitada(seccion, habilitada, df, df_nuevo) ==
    IF configuracion_final[seccion][habilitada] THEN df_nuevo ELSE df

\* The six stages in the order null handling, text, dates, duplicates,
\* outliers, rule validation, each on what the enabled stage before it made.
EnOrden(df) ==
    LET c == configuracion_final
        nulos == _manejar_valores_nulos(c, df)
        texto == SiHabilitada("normalizacion_texto", "habilitada", nulos,
                              _normalizar_texto(c, nulos))
        fechas == SiHabilitada("normalizacion_fechas", "habilitada", texto,
                               _normalizar_fechas(c, texto))
        duplicados == SiHabilitada("manejo_duplicados", "habilitado", fechas,
                                   _manejar_duplicados(c, fechas))
        outliers == SiHabilitada("manejo_outliers", "habilitado", duplicados,
                                 _manejar_outliers(c, duplicados))
    IN  SiHabilitada("validacion_datos", "habilitada", outliers,
                     _validar_datos(c, outliers))

\* C25: whatever the configuration, what transformar returns for a record
\* set is what the stages make of it in the fixed order null handling, text
\* normalization, date normalization, duplicate handling, outlier handling,
\* rule validation: null handling runs first and always, a disabled stage is
\* skipped, and each enabled stage is given the output of the enabled stage
\* before it.
C25_OrdenFijo ==
    (etapa = "retornado" /\ datos_recibidos # << >>) =>
       registros_limpios = EnOrden(DataFrame(datos_recibidos))

\* Witness of C25: with every stage enabled, two records that differ in the
\* case and the spacing of their text are alike after the text stage, and the
\* duplicate stage, which runs later, removes the second.
C25_Testigo ==
    /\ etapa = "retornado"
    /\ configuracion_final = configuracion_default
    /\ datos_recibidos = << Fila("1", "X"), Fila("1", " x") >>
    /\ registros_limpios = << Fila("1", "x") >>

\* ---------------------------------------------------------------------- C22
\* C22: a cleansing transformer that is in the orchestrator's list passed
\* the validation of its configuration when it was registered: no transformer
\* with an unknown null strategy, imputation method or outlier method is ever
\* registered.
C22_ValidadoAlRegistrar ==
    \A k \in 1..Len(transformadores) :
       transformadores[k] = "limpieza" => validar_configuracion(configuracion_final)

\* ---------------------------------------------------------------------- C27
\* C27: the date stage is all-or-nothing for each field: in its output a
\* field holds either the values it was given, untouched, or those values in
\* the output format, every step having succeeded.
C27_FechasTodoONada ==
    (etapa = "duplicados" /\ configuracion_final.normalizacion_fechas.habilitada) =>
       \A col \in Columnas(df_etapa) :
          \/ \A k \in 1..Len(df_etapa) : df_limpio[k][col] = df_etapa[k][col]
          \/ \A k \in 1..Len(df_etapa) :
                /\ df_etapa[k][col] # "nulo" => EsFecha(df_etapa[k][col])
                /\ df_limpio[k][col] = strftime(df_etapa[k][col])

\* ---------------------------------------------------------------------- C28
\* C28: a configuration that gives only some settings of a section is merged
\* with the defaults setting by setting, so that transformar never fails for
\* a setting that the merged configuration lacks.
C28_AjustePorAjuste ==
    etapa = "ErrorTransformacion" => error_msg.excepcion # "KeyError"

\* ---------------------------------------------------------------------- C30
\* The threshold of the Z-score method as the claim has it: the one the
\* configuration gives, 3.0 when it gives none.
Umbral ==
    IF "factor" \in DOMAIN configuracion_final.manejo_outliers
    THEN configuracion_final.manejo_outliers.factor
    ELSE [num |-> 3, den |-> 1]

\* The rows with |z| > threshold in no numeric column.
DentroDelUmbral ==
    LET c == [manejo_outliers |-> [factor |-> Umbral]]
    IN  {k \in 1..Len(df_etapa) :
            \A col \in Columnas(df_etapa) :
               dtype(df_etapa, col) = "float64" => ~FueraDeZ(c, df_etapa, col, k)}

\* C30: with the Z-score method the outlier stage removes exactly the rows
\* with |z| > threshold in some numeric column, the threshold being 3.0 when
\* the configuration gives none: the stage does not fail for want of one.
C30_ZScore ==
    LET o == configuracion_final.manejo_outliers
    IN  ({"habilitado", "metodo"} \subseteq DOMAIN o /\ o.habilitado /\ o.metodo = "zscore") =>
           /\ etapa = "ErrorTransformacion" =>
                 error_msg # [excepcion |-> "KeyError", args |-> "factor"]
           /\ etapa = "validacion" =>
                 df_limpio = Filas(df_etapa, DentroDelUmbral, Len(df_etapa))

\* ---------------------------------------------------------------------- C23
\* The records a call of extraer can reach: all that the API holds, up to
\* max_paginas pages of them in paginated mode.
Accesibles ==
    LET pg == configuracion_final.paginacion
    IN  IF pg.habilitada /\ pg.max_paginas * pg.tamano_pagina < Len(servidor)
        THEN SubSeq(servidor, 1, pg.max_paginas * pg.tamano_pagina)
        ELSE servidor

\* C23: extraction is all-or-nothing, without and with pagination: a call of
\* extraer that returns returns every record it can reach, and a call one of
\* whose requests got a status other than 200 or raised ends with
\* ErrorExtraccion.
C23_TodoONada ==
    /\ extraccion = "retornado" => registros = Accesibles
    /\ (\E k \in 1..Len(peticiones) : peticiones[k].respuesta # "200") =>
          extraccion = "ErrorExtraccion"

\* ---------------------------------------------------------------------- C26
\* The requests of a paginated extraction: page k is the k-th request, there
\* are at most max_paginas of them, every request but the last was answered
\* with a full page, and a request answered with fewer records than the page
\* size is followed by the return.
PaginasEnOrden ==
    LET pg == configuracion_final.paginacion
        n == Len(peticiones)
    IN  pg.habilitada =>
           /\ \A k \in 1..n : peticiones[k].pagina = k
           /\ n <= pg.max_paginas
           /\ \A k \in 1..(n - 1) :
                 /\ peticiones[k].respuesta = "200"
                 /\ peticiones[k].registros_pagina >= pg.tamano_pagina
           /\ (n > 0 /\ peticiones[n].registros_pagina < pg.tamano_pagina) =>
                 extraccion = "retornado"

\* C26: paginated extraction terminates.  Pages are requested in increasing
\* order from page 1, the extraction stops right after the first page that
\* returns fewer records than the page size, or none, no page is requested
\* after that one, the requests are never more than max_paginas, and the call
\* of extraer ends.
C26_Paginacion ==
    /\ []PaginasEnOrden
    /\ <>(extraccion \in {"retornado", "ErrorExtraccion"})

\* Witness of C26: two full pages of two records and a third page of one
\* were requested, and the five records were returned.
C26_Testigo ==
    /\ configuracion_final.paginacion.habilitada
    /\ configuracion_final.paginacion.tamano_pagina = 2
    /\ extraccion = "retornado"
    /\ Len(peticiones) = 3
    /\ peticiones[3] = [pagina |-> 3, respuesta |-> "200", registros_pagina |-> 1]
    /\ registros = << 1, 2, 3, 4, 5 >>

====
